---- MODULE Spec2Model ----
(***************************************************************************)
(* State-machine model of the recording pipeline of asmr-recorder:         *)
(* RecordingManager (manager.rs), the capture sources, the audio mixer,    *)
(* the compositor worker and the encoder worker, with the bounded          *)
(* crossbeam channels that connect them.                                   *)
(*                                                                         *)
(* Component instances are named by the number of the start() call that    *)
(* created them (1..MaxAttempts); 0 stands for None.  Wall-clock values    *)
(* (duration_ms, Instant) are not modelled; a frame's timestamp is the     *)
(* sequence number its producer gave it.                                   *)
(***************************************************************************)
EXTENDS Integers, Sequences, FiniteSets, TLC

\* ---------------------------------------------------------------- bounds
\* start() calls that get past validation (each creates fresh instances)
MaxAttempts == 2
\* start() calls that succeed, each starting the workers of one session
MaxSessions == 1
\* frames / chunks the capture sources deliver in one run of the lifecycle model
MaxFrames == 1
\* frames / chunks the capture sources deliver on top of nearly full queues
MaxBurst == 2
\* AudioMixerConfig.buffer_size of the modelled mixer (frames per mixed block)
BufferSize == 1
\* samples of one processed audio chunk (the OS callback buffer)
ChunkSamples == 3

\* ------------------------------------------------------ program constants
FRAME_CHANNEL_CAPACITY == 120
ScreenFallbackCapacity == 5
WebcamCapacity == 3
AudioCapacity == 30
MixedCapacity == 30
CompositeCapacity == 120
ErrorCapacity == 1
PressureThreshold == 96
StatusEvery == 30
Channels == 2

Ids == 1..MaxAttempts
Handles == 0..MaxAttempts

\* build-time variants: ScreenCaptureKit (screen_macos.rs, system_audio_macos.rs)
\* or the threaded sources (screen.rs, screen_fallback.rs, screen_windows.rs,
\* system_audio_fallback.rs)
Platforms == {"macos", "fallback"}

CaptureKinds == {"screen", "webcam", "mic", "sys"}
CompKinds == CaptureKinds \cup {"mixer", "encoder"}
WorkerKinds == CompKinds \cup {"compositor"}
QueueKinds == CaptureKinds \cup {"mixed", "composite", "error"}
HandleNames == {"screen_capture", "webcam_capture", "mic_capture",
                "system_audio_capture", "audio_mixer", "compositor",
                "encoder", "encoder_error_receiver"}

VARIABLES
    platform,            \* build variant
    pure,                \* a call of a pure function: its input and its result
    ext,                 \* the ExternalRecorder (external_recorder.rs)
    encoder_input,       \* the video queue of an encoder and what it converted
    instance,            \* one component instance: its running flag and its workers
    recording_state,     \* RecordingState of the command layer (recording.rs)
    status,              \* RecordingStatus behind Arc<Mutex<..>>
    stop_signal,         \* manager.stop_signal
    compositor_running,  \* manager.compositor_running
    config,              \* manager.config (<<>> = None, <<cfg>> = Some(cfg))
    h,                   \* the Option<..> component handles of the manager
    running,             \* running[k][n]: the `running` flag of instance n of kind k
    wpc,                 \* wpc[k][n]: position of the worker of instance n of kind k
    rxTaken,             \* rxTaken[k]: capture instances whose receiver was taken
    wire,                \* receivers moved into the mixer / compositor workers
    cmode,               \* cmode[n]: capture_screen as seen by compositor worker n
    q,                   \* q[k][n]: contents of the bounded channel
    sent,                \* sent[k][n]: frames instance n of kind k has captured
    frames,              \* frames the capture sources still deliver in this run
    cfc,                 \* compositor worker's local frame_count
    skipped_frames,      \* compositor worker's local skipped_frames
    latest_webcam,       \* compositor worker's local latest_webcam (0 = None)
    overlay,             \* the webcam frame handed to the last composite() call
    mbuf,                \* mixer worker's mic_buffer / system_buffer lengths, timestamp
    attempts,            \* number of start() calls that created instances
    mpc,                 \* position of the manager thread inside stop()
    pendingErr,          \* message handle_encoder_failure is processing
    ret                  \* the last completed manager call and its result

vars == <<platform, pure, ext, encoder_input, instance, recording_state, status, stop_signal, compositor_running, config, h, running,
          wpc, rxTaken, wire, cmode, q, sent, frames, cfc, skipped_frames,
          latest_webcam, overlay, mbuf, attempts, mpc, pendingErr, ret>>

\* the fields of RecordingManager and what start()/stop() reach through them
mgrVars == <<status, stop_signal, compositor_running, config, h, running, wpc,
             rxTaken, wire, cmode, q, sent, attempts, pendingErr>>

workerLocals == <<cfc, skipped_frames, latest_webcam, overlay, mbuf>>

NoneH == [x \in HandleNames |-> 0]

DefaultStatus == [is_recording |-> FALSE, frame_count |-> 0,
                  output_path |-> 0, error |-> "none"]

\* ------------------------------------------------------------ RecordingConfig
Cfg(s, w, m, a) == [capture_screen |-> s, capture_webcam |-> w,
                    capture_mic |-> m, capture_system_audio |-> a]

\* the configurations start() is called with
Configs == { Cfg(TRUE, FALSE, FALSE, FALSE),
             Cfg(FALSE, TRUE, FALSE, FALSE),
             Cfg(TRUE, FALSE, TRUE, FALSE),
             Cfg(TRUE, FALSE, FALSE, TRUE),
             Cfg(FALSE, FALSE, TRUE, FALSE) }

\* what the operating system answers during one start() call
Envs(cfg) == [screenNew : IF cfg.capture_screen THEN BOOLEAN ELSE {TRUE},
              micNew : IF cfg.capture_mic THEN BOOLEAN ELSE {TRUE},
              sysAvail : IF cfg.capture_system_audio /\ platform = "fallback"
                         THEN BOOLEAN ELSE {TRUE},
              sckStart : IF platform = "macos" THEN BOOLEAN ELSE {TRUE},
              sysStart : IF cfg.capture_system_audio /\ platform = "macos"
                         THEN BOOLEAN ELSE {TRUE}]

\* ------------------------------------------------------------ start()
\* start() without its first check
AlreadyRecordingUnchecked(st) == FALSE

\* manager.rs:72 `if self.status.lock().is_recording`
AlreadyRecording(st) == st.is_recording

\* start() without its validation of the video sources
NoVideoSourceUnchecked(cfg) == FALSE

\* manager.rs:77 `if !config.capture_screen && !config.capture_webcam`
NoVideoSource(cfg) == ~cfg.capture_screen /\ ~cfg.capture_webcam

\* ScreenCaptureKit sources deliver on an OS stream, the others on a thread
IsSck(k) == platform = "macos" /\ k \in {"screen", "sys"}

\* the part of the state start() works on, with the error it returns
MgrState == [h |-> h, running |-> running, wpc |-> wpc, rxTaken |-> rxTaken,
             wire |-> wire, cmode |-> cmode,
             compositor_running |-> compositor_running, config |-> config,
             err |-> "none"]

\* the `?` operator: once a step has returned Err, the steps after it do
\* not run
Failed(s) == s.err # "none"

\* manager.rs:118-135 ScreenCapture::new(..).map_err(..)?
InitScreen(s, cfg, env, n) ==
    IF ~cfg.capture_screen THEN s
    ELSE IF env.screenNew
         THEN [s EXCEPT !.h["screen_capture"] = n]
         ELSE [s EXCEPT !.err = "ScreenCapture"]

\* manager.rs:138-150 (WebcamCapture::new never returns Err, webcam.rs:79-96)
InitWebcam(s, cfg, n) ==
    IF Failed(s) THEN s ELSE
    IF ~cfg.capture_webcam THEN s
    ELSE [s EXCEPT !.h["webcam_capture"] = n]

\* manager.rs:153-160 MicrophoneCapture::new(..).map_err(..)?
InitMic(s, cfg, env, n) ==
    IF Failed(s) THEN s ELSE
    IF ~cfg.capture_mic THEN s
    ELSE IF env.micNew
         THEN [s EXCEPT !.h["mic_capture"] = n]
         ELSE [s EXCEPT !.err = "Audio"]

\* manager.rs:163-178: kept only when is_available(); never an error of start()
InitSystemAudio(s, cfg, env, n) ==
    IF Failed(s) THEN s ELSE
    IF cfg.capture_system_audio /\ env.sysAvail
    THEN [s EXCEPT !.h["system_audio_capture"] = n]
    ELSE s

\* manager.rs:180-210 compositor, mixer, encoder, config
InitRest(s, cfg, n) ==
    IF Failed(s) THEN s ELSE
    [s EXCEPT !.h["compositor"] = n, !.h["audio_mixer"] = n,
              !.h["encoder"] = n, !.config = <<cfg>>]

\* the manager field that holds the component of kind k
HandleOf(k) == CASE k = "screen" -> "screen_capture"
                 [] k = "webcam" -> "webcam_capture"
                 [] k = "mic" -> "mic_capture"
                 [] k = "sys" -> "system_audio_capture"
                 [] k = "mixer" -> "audio_mixer"
                 [] k = "encoder" -> "encoder"

\* take_receiver(): Some only the first time (Option::take)
Receiver(s, k, hn) ==
    IF s.h[hn] # 0 /\ s.h[hn] \notin s.rxTaken[k] THEN s.h[hn] ELSE 0

\* manager.rs:233-274 take the receivers, connect mixer and encoder
Connect(s, n) ==
    LET sr == Receiver(s, "screen", "screen_capture")
        wr == Receiver(s, "webcam", "webcam_capture")
        mr == Receiver(s, "mic", "mic_capture")
        ar == Receiver(s, "sys", "system_audio_capture")
    IN [s EXCEPT !.rxTaken = [k \in CaptureKinds |->
                                 s.rxTaken[k] \cup ({s.h[HandleOf(k)]} \ {0})],
                 !.wire["cs"][n] = sr, !.wire["cw"][n] = wr,
                 !.wire["mm"][n] = mr, !.wire["ms"][n] = ar,
                 !.h["encoder_error_receiver"] = n]

\* <Capture>::start(): the running check, the flag, then the worker
\* (screen.rs:126-147, webcam.rs:104-129, audio.rs:148-176,
\*  screen_macos.rs:138-201, system_audio_macos.rs:71-124)
StartCapture(s, k, hn, env) ==
    IF Failed(s) THEN s ELSE
    LET i == s.h[hn] IN
    IF i = 0 THEN s
    ELSE IF s.running[k][i] THEN [s EXCEPT !.err = "AlreadyRunning"]
    ELSE IF IsSck(k)
         THEN IF (IF k = "screen" THEN env.sckStart ELSE env.sysStart)
              THEN [s EXCEPT !.running[k][i] = TRUE, !.wpc[k][i] = "run"]
              ELSE [s EXCEPT !.running[k][i] = TRUE,
                             !.err = IF k = "screen" THEN "ScreenCapture"
                                     ELSE "SystemAudio"]
         ELSE [s EXCEPT !.running[k][i] = TRUE, !.wpc[k][i] = "run"]

\* system audio started like the other sources, its error returned with `?`
StartSystemAudioChecked(s, env) == StartCapture(s, "sys", "system_audio_capture", env)

\* manager.rs:289-291 `let _ = capture.start();`
StartSystemAudio(s, env) ==
    IF Failed(s) THEN s ELSE
    [StartCapture(s, "sys", "system_audio_capture", env) EXCEPT !.err = "none"]

\* AudioMixer::start (audio_mixer.rs:89-120), Encoder::start (encoder.rs:84-135)
StartWorker(s, k, hn, pc0) ==
    IF Failed(s) THEN s ELSE
    LET i == s.h[hn] IN
    IF i = 0 THEN s
    ELSE IF s.running[k][i] THEN [s EXCEPT !.err = "AlreadyRunning"]
    ELSE [s EXCEPT !.running[k][i] = TRUE, !.wpc[k][i] = pc0]

\* manager.rs:312-355 start_compositor_thread
StartCompositorThread(s, n) ==
    IF Failed(s) THEN s ELSE
    [s EXCEPT !.compositor_running = TRUE, !.wpc["compositor"][n] = "run",
              !.cmode[n] = IF s.config[1].capture_screen THEN "screen" ELSE "webcam"]

\* manager.rs:231-309 start_capture_pipeline
StartCapturePipeline(s, env, n) ==
    IF Failed(s) THEN s ELSE
    LET s1 == Connect(s, n)
        s2 == StartCapture(s1, "screen", "screen_capture", env)
        s3 == StartCapture(s2, "webcam", "webcam_capture", env)
        s4 == StartCapture(s3, "mic", "mic_capture", env)
        s5 == StartSystemAudio(s4, env)
        s6 == StartWorker(s5, "mixer", "audio_mixer", "run")
        s7 == StartWorker(s6, "encoder", "encoder", "init")
    IN StartCompositorThread(s7, n)

\* manager.rs:117-213: everything start() does between validation and the
\* status update
StartBody(cfg, env, n) ==
    LET s1 == InitScreen(MgrState, cfg, env, n)
        s2 == InitWebcam(s1, cfg, n)
        s3 == InitMic(s2, cfg, env, n)
        s4 == InitSystemAudio(s3, cfg, env, n)
        s5 == InitRest(s4, cfg, n)
    IN StartCapturePipeline(s5, env, n)

\* sessions started so far: the compositor thread is the last thing a
\* successful start() creates
Sessions == Cardinality({n \in Ids : wpc["compositor"][n] # "none"})

\* the status update moved in front of the fallible steps
StartStatusBeforePipeline(st, err, n) ==
    [is_recording |-> TRUE, frame_count |-> 0, output_path |-> n, error |-> "none"]

\* manager.rs:216-223, reached only when no `?` returned before it
StartStatus(st, err, n) ==
    IF err = "none"
    THEN [is_recording |-> TRUE, frame_count |-> 0, output_path |-> n, error |-> "none"]
    ELSE st

Ret(op, res, path, snap) == [op |-> op, res |-> res, path |-> path, snap |-> snap]

\* manager.rs:70-228 RecordingManager::start, in a run of at most `sessions`
\* recording sessions
StartUpTo(cfg, env, sessions) ==
    /\ mpc = "idle"
    /\ IF AlreadyRecording(status)
       THEN /\ ret' = Ret("start", "AlreadyRecording", 0, status)
            /\ UNCHANGED mgrVars
       ELSE IF NoVideoSource(cfg)
       THEN /\ ret' = Ret("start", "NoVideoSource", 0, status)
            /\ UNCHANGED mgrVars
       ELSE /\ attempts < MaxAttempts
            /\ LET n == attempts + 1
                   r == StartBody(cfg, env, n)
               IN /\ r.err = "none" => Sessions < sessions
                  /\ attempts' = n
                  /\ stop_signal' = FALSE
                  /\ h' = r.h
                  /\ running' = r.running
                  /\ wpc' = r.wpc
                  /\ rxTaken' = r.rxTaken
                  /\ wire' = r.wire
                  /\ cmode' = r.cmode
                  /\ compositor_running' = r.compositor_running
                  /\ config' = r.config
                  /\ status' = StartStatus(status, r.err, n)
                  /\ ret' = Ret("start", IF r.err = "none" THEN "Ok" ELSE r.err,
                                0, status')
            /\ UNCHANGED <<q, sent, pendingErr>>
    /\ UNCHANGED <<platform, pure, ext, encoder_input, instance, recording_state, mpc, frames>>
    /\ UNCHANGED workerLocals

Start(cfg, env) == StartUpTo(cfg, env, MaxSessions)

\* ------------------------------------------------------------ stop()
\* stop() without its first check
NotRecordingUnchecked(st) == FALSE

\* manager.rs:359 `if !self.status.lock().is_recording`
NotRecording(st) == ~st.is_recording

\* stop() with the mixer and the encoder stopped before the capture sources
StopOrderWorkersFirst ==
    <<"mixer", "encoder", "screen", "webcam", "mic", "sys", "sleep">>

\* the statements of stop() after the two flags, in program order
\* (manager.rs:368-393)
StopOrder == <<"screen", "webcam", "mic", "sys", "mixer", "encoder", "sleep">>

StopIndex(pc) == IF pc = "idle" THEN 0
                 ELSE CHOOSE i \in 1..Len(StopOrder) : StopOrder[i] = pc

\* whether the statement at position i does anything: a component is stopped
\* only `if let Some(..)`, the sleep always runs
StopActs(i) == StopOrder[i] = "sleep" \/ h[HandleOf(StopOrder[i])] # 0

\* the statement that runs next inside stop() after the one at pc
StopNext(pc) ==
    StopOrder[CHOOSE i \in (StopIndex(pc) + 1)..Len(StopOrder) :
                 /\ StopActs(i)
                 /\ \A j \in (StopIndex(pc) + 1)..(i - 1) : ~StopActs(j)]

\* manager.rs:363-365: the stop flag and compositor_running
StopFlags ==
    /\ stop_signal' = TRUE
    /\ compositor_running' = FALSE
    /\ mpc' = StopNext("idle")

\* manager.rs:358-365 RecordingManager::stop, up to the flags
Stop ==
    /\ mpc = "idle"
    /\ IF NotRecording(status)
       THEN /\ ret' = Ret("stop", "NotRecording", 0, status)
            /\ UNCHANGED <<stop_signal, compositor_running, mpc>>
       ELSE /\ StopFlags
            /\ UNCHANGED ret
    /\ UNCHANGED <<platform, pure, ext, encoder_input, instance, recording_state, status, config, h, running, wpc, rxTaken, wire, cmode,
                   q, sent, frames, attempts, pendingErr>>
    /\ UNCHANGED workerLocals

\* <Component>::stop(): clears the running flag; the ScreenCaptureKit sources
\* also stop their stream (screen_macos.rs:203-214, system_audio_macos.rs:126-136)
StopInstance(k, i) ==
    /\ running' = [running EXCEPT ![k][i] = FALSE]
    /\ wpc' = IF IsSck(k) /\ wpc[k][i] = "run"
              THEN [wpc EXCEPT ![k][i] = "done"] ELSE wpc

\* manager.rs:368-390: one `if let Some(ref c) = self.<component> { c.stop() }`
StopComponent(k) ==
    /\ mpc = k
    /\ StopInstance(k, h[HandleOf(k)])
    /\ mpc' = StopNext(mpc)
    /\ UNCHANGED <<platform, pure, ext, encoder_input, instance, recording_state, status, stop_signal, compositor_running, config, h,
                   rxTaken, wire, cmode, q, sent, frames, attempts, pendingErr, ret>>
    /\ UNCHANGED workerLocals

\* manager.rs:393-420 after the sleep: status, handles, result; and
\* manager.rs:438-440 when stop() was called by handle_encoder_failure
StopFinish ==
    /\ mpc = "sleep"
    /\ mpc' = "idle"
    /\ status' = IF pendingErr = "none"
                 THEN [status EXCEPT !.is_recording = FALSE]
                 ELSE [status EXCEPT !.is_recording = FALSE, !.error = pendingErr]
    /\ config' = <<>>
    /\ h' = NoneH
    /\ pendingErr' = "none"
    /\ ret' = IF pendingErr # "none" THEN Ret("status", "Ok", 0, status')
              ELSE IF status.output_path # 0
                   THEN Ret("stop", "Ok", status.output_path, status')
                   ELSE Ret("stop", "NoOutputPath", 0, status')
    /\ UNCHANGED <<platform, pure, ext, encoder_input, instance, recording_state, stop_signal, compositor_running, running, wpc, rxTaken,
                   wire, cmode, q, sent, frames, attempts>>
    /\ UNCHANGED workerLocals

\* ------------------------------------------------------------ status()
\* manager.rs:425-428 `receiver.try_recv().ok()`
PendingEncoderError ==
    LET i == h["encoder_error_receiver"] IN
    IF i # 0 /\ q["error"][i] # <<>> THEN <<q["error"][i][1]>> ELSE <<>>

\* manager.rs:64-67 status(), 424-441 handle_encoder_errors / handle_encoder_failure
Status ==
    /\ mpc = "idle"
    /\ IF PendingEncoderError # <<>>
       THEN /\ q' = [q EXCEPT !["error"][h["encoder_error_receiver"]] = Tail(@)]
            /\ IF NotRecording(status)
               THEN /\ status' = [status EXCEPT !.error = PendingEncoderError[1]]
                    /\ ret' = Ret("status", "Ok", 0, status')
                    /\ UNCHANGED <<stop_signal, compositor_running, mpc, pendingErr>>
               ELSE /\ StopFlags
                    /\ pendingErr' = PendingEncoderError[1]
                    /\ UNCHANGED <<status, ret>>
       ELSE /\ ret' = Ret("status", "Ok", 0, status)
            /\ UNCHANGED <<q, status, stop_signal, compositor_running, mpc, pendingErr>>
    /\ UNCHANGED <<platform, pure, ext, encoder_input, instance, recording_state, config, h, running, wpc, rxTaken, wire, cmode, sent,
                   frames, attempts>>
    /\ UNCHANGED workerLocals

\* ------------------------------------------------------------ channels
\* the capacity given to bounded(..) where the channel is created
Capacity(k) == CASE k = "screen" -> IF platform = "macos"
                                    THEN FRAME_CHANNEL_CAPACITY
                                    ELSE ScreenFallbackCapacity
                 [] k = "webcam" -> WebcamCapacity
                 [] k = "mic" -> AudioCapacity
                 [] k = "sys" -> AudioCapacity
                 [] k = "mixed" -> MixedCapacity
                 [] k = "composite" -> CompositeCapacity
                 [] k = "error" -> ErrorCapacity

WorkerLive(k, n) == wpc[k][n] \notin {"none", "done", "failed"}

\* whether a Receiver of channel (k, i) still exists: in the struct that
\* created it, in the component it was moved into, or in that component's worker
RxAlive(k, i) ==
    CASE k \in {"screen", "webcam"} ->
           \/ h[HandleOf(k)] = i /\ i \notin rxTaken[k]
           \/ \E n \in Ids : /\ wire[IF k = "screen" THEN "cs" ELSE "cw"][n] = i
                             /\ WorkerLive("compositor", n)
      [] k \in {"mic", "sys"} ->
           \/ h[HandleOf(k)] = i /\ i \notin rxTaken[k]
           \/ \E n \in Ids : /\ wire[IF k = "mic" THEN "mm" ELSE "ms"][n] = i
                             /\ (h["audio_mixer"] = n \/ WorkerLive("mixer", n))
      [] k \in {"mixed", "composite"} ->
           h["encoder"] = i \/ WorkerLive("encoder", i)
      [] k = "error" -> h["encoder_error_receiver"] = i

\* a channel that puts a new item in front of the queued ones
TrySendInFront(queue, cap, alive, item) ==
    IF ~alive THEN [q |-> queue, res |-> "Disconnected"]
    ELSE IF Len(queue) < cap THEN [q |-> <<item>> \o queue, res |-> "Ok"]
    ELSE [q |-> queue, res |-> "Full"]

\* a channel that takes whatever is sent while a receiver exists
TrySendUnbounded(queue, cap, alive, item) ==
    IF ~alive THEN [q |-> queue, res |-> "Disconnected"]
    ELSE [q |-> Append(queue, item), res |-> "Ok"]

\* crossbeam_channel::Sender::try_send on a bounded channel: never blocks;
\* Ok appends, Full and Disconnected leave the channel as it was
TrySend(queue, cap, alive, item) ==
    IF ~alive THEN [q |-> queue, res |-> "Disconnected"]
    ELSE IF Len(queue) < cap THEN [q |-> Append(queue, item), res |-> "Ok"]
    ELSE [q |-> queue, res |-> "Full"]

Last(seq) == seq[Len(seq)]

\* a blocking send: it returns only once there is room or no receiver is left
SendWaits(queue, cap, alive) == ~alive \/ Len(queue) < cap

\* whether the send call of a producer returns in the state it is made in:
\* every producer calls try_send (screen.rs:210, screen_macos.rs:98,
\* webcam.rs:194, audio.rs:236, system_audio_macos.rs:45, audio_mixer.rs:202,
\* manager.rs:526 and 568), which returns at once whatever the queue holds
SendReturns(queue, cap, alive) == TRUE

\* ------------------------------------------------------------ capture workers
\* A spawned capture thread that has captured nothing yet may still be opening
\* its device.  Opening fails: the thread logs the error and ends
\* (screen.rs:141-143, webcam.rs:120-123, audio.rs:168-171)
CaptureOpenFail(k, n) ==
    /\ wpc[k][n] = "run"
    /\ ~IsSck(k)
    /\ sent[k][n] = 0
    /\ wpc' = [wpc EXCEPT ![k][n] = "failed"]
    /\ UNCHANGED <<platform, pure, ext, encoder_input, instance, recording_state, status, stop_signal, compositor_running, config, h,
                   running, rxTaken, wire, cmode, q, sent, frames, attempts, mpc,
                   pendingErr, ret>>
    /\ UNCHANGED workerLocals

\* whether the source delivers a frame now: the threaded loops and the cpal
\* callbacks read `running` first, the ScreenCaptureKit handlers do not
Delivers(k, n) == wpc[k][n] = "run" /\ (IsSck(k) \/ running[k][n])

\* one captured frame / chunk and its try_send (screen.rs:196-210,
\* screen_macos.rs:74-107, webcam.rs:181-194, audio.rs:226-237)
CaptureFrame(k, n) ==
    /\ Delivers(k, n)
    /\ frames > 0
    /\ SendReturns(q[k][n], Capacity(k), RxAlive(k, n))
    /\ frames' = frames - 1
    /\ LET item == sent[k][n] + 1
           r == TrySend(q[k][n], Capacity(k), RxAlive(k, n), item)
       IN /\ q' = [q EXCEPT ![k][n] = r.q]
          /\ sent' = [sent EXCEPT ![k][n] = item]
    /\ UNCHANGED <<platform, pure, ext, encoder_input, instance, recording_state, status, stop_signal, compositor_running, config, h,
                   running, wpc, rxTaken, wire, cmode, attempts, mpc,
                   pendingErr, ret>>
    /\ UNCHANGED workerLocals

\* `while *running.lock()` is false: the capture thread ends
CaptureExit(k, n) ==
    /\ wpc[k][n] = "run"
    /\ ~IsSck(k)
    /\ ~running[k][n]
    /\ wpc' = [wpc EXCEPT ![k][n] = "done"]
    /\ UNCHANGED <<platform, pure, ext, encoder_input, instance, recording_state, status, stop_signal, compositor_running, config, h,
                   running, rxTaken, wire, cmode, q, sent, frames, attempts, mpc,
                   pendingErr, ret>>
    /\ UNCHANGED workerLocals

\* ------------------------------------------------------------ compositor worker
\* a compositor loop that never looks at its flags
CompositorNeverStops == TRUE

\* manager.rs:479 `while *running.lock() && !*stop_signal.lock()`
CompositorContinues == compositor_running /\ ~stop_signal

\* a rule that looks at the queue only
ShouldSkipByPressure(mode, len, recent) == len > PressureThreshold

\* manager.rs:509-515 (screen mode: len / 120.0 > 0.8 and a recent emit) and
\* manager.rs:560-561 (webcam-only mode: len > 96)
ShouldSkip(mode, len, recent) ==
    IF mode = "screen"
    THEN len * 10 > 8 * CompositeCapacity /\ recent
    ELSE len > PressureThreshold

\* a drain that keeps the first frame it receives
DrainOldest(queue) ==
    IF queue = <<>> THEN [kept |-> 0, older |-> 0]
    ELSE [kept |-> Head(queue), older |-> Len(queue) - 1]

\* manager.rs:494-500 `while let Ok(screen_frame) = receiver.try_recv()`: the
\* frame left in latest_screen_frame (0 = None) and the frames replaced on the way
DrainLatest(queue) ==
    IF queue = <<>> THEN [kept |-> 0, older |-> 0]
    ELSE [kept |-> Last(queue), older |-> Len(queue) - 1]

\* a count of the frames replaced during the drain only
SkippedAfterDrain(skipped, older, kept, ok) == skipped + older

\* skipped_frames at the end of a screen-mode iteration: one for every frame
\* replaced during the drain (manager.rs:495-497), one when the kept frame is
\* dropped by the backpressure rule (manager.rs:517-518) or refused by
\* try_send (manager.rs:538-540)
SkippedAfter(skipped, older, kept, ok) ==
    skipped + older + (IF kept # 0 /\ ~ok THEN 1 ELSE 0)

\* a compositor that forgets the webcam frame after every iteration
ClearedAfterTick(mode, lw) == 0

\* latest_webcam at the end of an iteration: kept in screen mode, set to None
\* in webcam-only mode (manager.rs:586-587)
AfterTick(mode, lw) == IF mode = "screen" THEN lw ELSE 0

\* one iteration of compositor_loop (manager.rs:479-590); `recent` is whether
\* last_processed_time.elapsed() < 2 * target_frame_interval.  skipped_frames
\* counts the screen frames drained behind the latest one (manager.rs:496-498),
\* the frames skipped for backpressure (516-517, 563-564) and the composites
\* try_send refused (538-540, 578-580)
CompositorTick(n, recent) ==
    /\ wpc["compositor"][n] = "run"
    /\ CompositorContinues
    /\ SendReturns(q["composite"][n], CompositeCapacity, RxAlive("composite", n))
    /\ LET cw == wire["cw"][n]
           cs == wire["cs"][n]
           wq == IF cw # 0 THEN q["webcam"][cw] ELSE <<>>
           lw == IF wq # <<>> THEN Last(wq) ELSE latest_webcam[n]
           sq == IF cmode[n] = "screen" /\ cs # 0 THEN q["screen"][cs] ELSE <<>>
           drained == DrainLatest(sq)
           frame == IF cmode[n] = "screen" THEN drained.kept ELSE lw
           emit == frame # 0 /\ ~ShouldSkip(cmode[n], Len(q["composite"][n]), recent)
           r == TrySend(q["composite"][n], CompositeCapacity,
                        RxAlive("composite", n), frame)
           ok == emit /\ r.res = "Ok"
           fc == IF ok THEN cfc[n] + 1 ELSE cfc[n]
           sk == IF cmode[n] = "screen"
                 THEN SkippedAfter(skipped_frames[n], drained.older, frame, ok)
                 ELSE skipped_frames[n] + (IF frame # 0 /\ ~ok THEN 1 ELSE 0)
       IN /\ q' = [k \in QueueKinds |-> [i \in Ids |->
                     IF k = "webcam" /\ i = cw THEN <<>>
                     ELSE IF k = "screen" /\ i = cs /\ cmode[n] = "screen" THEN <<>>
                     ELSE IF k = "composite" /\ i = n /\ emit THEN r.q
                     ELSE q[k][i]]]
          /\ latest_webcam' = [latest_webcam EXCEPT ![n] = AfterTick(cmode[n], lw)]
          /\ overlay' = [overlay EXCEPT ![n] =
                            IF emit /\ cmode[n] = "screen" THEN lw ELSE @]
          /\ cfc' = [cfc EXCEPT ![n] = fc]
          /\ skipped_frames' = [skipped_frames EXCEPT ![n] = sk]
          /\ status' = IF ok /\ fc % StatusEvery = 0
                       THEN [status EXCEPT !.frame_count = fc] ELSE status
    /\ UNCHANGED <<platform, pure, ext, encoder_input, instance, recording_state, stop_signal, compositor_running, config, h, running,
                   wpc, rxTaken, wire, cmode, sent, frames, attempts, mpc, pendingErr,
                   ret, mbuf>>

\* the loop condition is false: final status update (manager.rs:592-597)
CompositorExit(n) ==
    /\ wpc["compositor"][n] = "run"
    /\ ~CompositorContinues
    /\ wpc' = [wpc EXCEPT !["compositor"][n] = "done"]
    /\ status' = [status EXCEPT !.frame_count = cfc[n]]
    /\ UNCHANGED <<platform, pure, ext, encoder_input, instance, recording_state, stop_signal, compositor_running, config, h, running,
                   rxTaken, wire, cmode, q, sent, frames, attempts, mpc, pendingErr,
                   ret>>
    /\ UNCHANGED workerLocals

\* ------------------------------------------------------------ mixer worker
\* audio_mixer.rs:143 samples_per_chunk
SamplesPerChunk == BufferSize * Channels

Min(a, b) == IF a < b THEN a ELSE b

\* audio_mixer.rs:187 `while mic_buffer.len() >= n || system_buffer.len() >= n`
MixerHasBlock(b) == b.mic >= SamplesPerChunk \/ b.sys >= SamplesPerChunk

\* audio_mixer.rs:304-342 mix_buffers: what is left in the two buffers
MixBuffers(b) == [b EXCEPT !.mic = @ - Min(@, SamplesPerChunk),
                           !.sys = @ - Min(@, SamplesPerChunk)]

\* audio_mixer.rs:145-184: the loop test, then every available chunk of both
\* sources is appended to its buffer; with less than a block buffered the
\* iteration ends in the 5 ms sleep (audio_mixer.rs:206-207)
MixerCollect(n) ==
    /\ wpc["mixer"][n] = "run"
    /\ running["mixer"][n]
    /\ LET mm == wire["mm"][n]
           ms == wire["ms"][n]
           mq == IF mm # 0 THEN q["mic"][mm] ELSE <<>>
           aq == IF ms # 0 THEN q["sys"][ms] ELSE <<>>
           b == [mic |-> mbuf[n].mic + Len(mq) * ChunkSamples,
                 sys |-> mbuf[n].sys + Len(aq) * ChunkSamples,
                 ts |-> IF mq # <<>> THEN Last(mq) ELSE mbuf[n].ts]
       IN /\ mq # <<>> \/ aq # <<>>
          /\ mbuf' = [mbuf EXCEPT ![n] = b]
          /\ q' = [k \in QueueKinds |-> [i \in Ids |->
                     IF (k = "mic" /\ i = mm) \/ (k = "sys" /\ i = ms)
                     THEN <<>> ELSE q[k][i]]]
          /\ wpc' = [wpc EXCEPT !["mixer"][n] =
                        IF MixerHasBlock(b) THEN "mix" ELSE "run"]
    /\ UNCHANGED <<platform, pure, ext, encoder_input, instance, recording_state, status, stop_signal, compositor_running, config, h,
                   running, rxTaken, wire, cmode, sent, frames, attempts, mpc,
                   pendingErr, ret, cfc, skipped_frames, latest_webcam, overlay>>

\* one mixed block and its try_send (audio_mixer.rs:187-204); after the last
\* block the iteration ends in the sleep
MixerMix(n) ==
    /\ wpc["mixer"][n] = "mix"
    /\ MixerHasBlock(mbuf[n])
    /\ SendReturns(q["mixed"][n], MixedCapacity, RxAlive("mixed", n))
    /\ mbuf' = [mbuf EXCEPT ![n] = MixBuffers(@)]
    /\ wpc' = [wpc EXCEPT !["mixer"][n] =
                  IF MixerHasBlock(MixBuffers(mbuf[n])) THEN "mix" ELSE "run"]
    /\ LET r == TrySend(q["mixed"][n], MixedCapacity, RxAlive("mixed", n), mbuf[n].ts)
       IN q' = [q EXCEPT !["mixed"][n] = r.q]
    /\ UNCHANGED <<platform, pure, ext, encoder_input, instance, recording_state, status, stop_signal, compositor_running, config, h,
                   running, rxTaken, wire, cmode, sent, frames, attempts, mpc,
                   pendingErr, ret, cfc, skipped_frames, latest_webcam, overlay>>

\* audio_mixer.rs:145 `while *running.lock()` is false
MixerExit(n) ==
    /\ wpc["mixer"][n] = "run"
    /\ ~running["mixer"][n]
    /\ wpc' = [wpc EXCEPT !["mixer"][n] = "done"]
    /\ UNCHANGED <<platform, pure, ext, encoder_input, instance, recording_state, status, stop_signal, compositor_running, config, h,
                   running, rxTaken, wire, cmode, q, sent, frames, attempts, mpc,
                   pendingErr, ret>>
    /\ UNCHANGED workerLocals

\* ------------------------------------------------------------ encoder worker
EncoderStep(n, from, to) ==
    /\ wpc["encoder"][n] = from
    /\ wpc' = [wpc EXCEPT !["encoder"][n] = to]
    /\ UNCHANGED <<platform, pure, ext, encoder_input, instance, recording_state, status, stop_signal, compositor_running, config, h,
                   running, rxTaken, wire, cmode, sent, frames, attempts, mpc,
                   pendingErr, ret>>
    /\ UNCHANGED workerLocals

\* encoder.rs:259-381: output, codecs, streams, header and scaler are set up
EncoderOpen(n) == EncoderStep(n, "init", "run") /\ UNCHANGED q

\* encoder.rs:109-117: encode_loop_ffmpeg returns Err during set-up; the worker
\* prints the error and ends
EncoderFail(n) == EncoderStep(n, "init", "failed") /\ UNCHANGED q

\* encoder.rs:394-469: one iteration of `while *running.lock()`: both queues
\* are drained with try_recv
EncoderDrain(n) ==
    /\ running["encoder"][n]
    /\ q["composite"][n] # <<>> \/ q["mixed"][n] # <<>>
    /\ EncoderStep(n, "run", "run")
    /\ q' = [q EXCEPT !["composite"][n] = <<>>, !["mixed"][n] = <<>>]

\* the loop test is false: flush both encoders and write the trailer
\* (encoder.rs:471-496); the file is final
EncoderFinish(n) ==
    /\ ~running["encoder"][n]
    /\ EncoderStep(n, "run", "done")
    /\ UNCHANGED q

\* encoder.rs:491-492 write_trailer returns Err: printed by the worker
\* (encoder.rs:109-117), nothing else happens
EncoderTrailerFail(n) ==
    /\ ~running["encoder"][n]
    /\ EncoderStep(n, "run", "failed")
    /\ UNCHANGED q

\* ------------------------------------------------------------ specification
\* RecordingManager::new (manager.rs:44-61): nothing created, nothing running
InitManager ==
    /\ status = DefaultStatus
    /\ stop_signal = FALSE
    /\ compositor_running = FALSE
    /\ config = <<>>
    /\ h = NoneH
    /\ running = [k \in CompKinds |-> [n \in Ids |-> FALSE]]
    /\ wpc = [k \in WorkerKinds |-> [n \in Ids |-> "none"]]
    /\ rxTaken = [k \in CaptureKinds |-> {}]
    /\ wire = [w \in {"cs", "cw", "mm", "ms"} |-> [n \in Ids |-> 0]]
    /\ cmode = [n \in Ids |-> "screen"]
    /\ q = [k \in QueueKinds |-> [n \in Ids |-> <<>>]]
    /\ sent = [k \in CaptureKinds |-> [n \in Ids |-> 0]]
    /\ cfc = [n \in Ids |-> 0]
    /\ skipped_frames = [n \in Ids |-> 0]
    /\ latest_webcam = [n \in Ids |-> 0]
    /\ overlay = [n \in Ids |-> 0]
    /\ mbuf = [n \in Ids |-> [mic |-> 0, sys |-> 0, ts |-> 0]]
    /\ attempts = 0
    /\ mpc = "idle"
    /\ pendingErr = "none"
    /\ ret = Ret("none", "none", 0, DefaultStatus)

\* external_recorder.rs:47-62 ExternalRecorder::new; `worker` is the encoder
\* thread of the session, `queue` the frame channel of start_pipeline, `res`
\* the result of the last call, `sessions` and `pushed` the sessions started
\* and the frames enqueued in this run
NewExternalRecorder ==
    [is_recording |-> FALSE, config |-> <<>>, frame_sender |-> FALSE,
     encoder |-> FALSE, worker |-> "none", error_pending |-> FALSE,
     queue |-> <<>>, frame_count |-> 0, status_frame_count |-> 0,
     sessions |-> 0, pushed |-> 0, res |-> "none"]

\* no component instance is followed
NoInstance == [kind |-> "none", running |-> FALSE, workers |-> <<>>, res |-> "none"]

\* recording.rs:292-301 RecordingState::default; `pc` is the command being
\* served and `res` the result of the last command
NewRecordingState ==
    [status |-> DefaultStatus, config |-> <<>>, stop_signal |-> FALSE,
     pc |-> "idle", res |-> "none"]

\* no encoder input is followed
NoVideo ==
    [config |-> <<>>, build |-> "ffmpeg", running |-> FALSE, pc |-> "none",
     senders |-> {}, queue |-> <<>>, sent |-> 0, audio_queue |-> <<>>, audio_sent |-> 0,
     scaled |-> <<>>, frame_count |-> 0, audio_buffer |-> 0, audio_pts |-> 0,
     audio_frames |-> <<>>, out |-> <<>>, at_stop |-> [video |-> 0, audio |-> 0]]

\* no pure function is being called
NoCall == [fn |-> "none", in |-> <<>>, out |-> <<>>, done |-> FALSE]

Init ==
    /\ platform \in Platforms
    /\ pure = NoCall
    /\ ext = NewExternalRecorder
    /\ encoder_input = NoVideo
    /\ instance = NoInstance
    /\ recording_state = NewRecordingState
    /\ frames = MaxFrames
    /\ InitManager

\* the calls of the manager thread (the Tauri commands hold the state mutex,
\* recording.rs:393-497, so calls do not overlap)
ManagerNext ==
    \/ \E cfg \in Configs : \E env \in Envs(cfg) : Start(cfg, env)
    \/ Stop
    \/ \E k \in CompKinds : StopComponent(k)
    \/ StopFinish
    \/ Status

CaptureNext ==
    \E k \in CaptureKinds : \E n \in Ids :
        \/ CaptureOpenFail(k, n)
        \/ CaptureFrame(k, n)
        \/ CaptureExit(k, n)

CompositorNext ==
    \E n \in Ids :
        \/ \E recent \in BOOLEAN : CompositorTick(n, recent)
        \/ CompositorExit(n)

MixerNext ==
    \E n \in Ids :
        \/ MixerCollect(n)
        \/ MixerMix(n)
        \/ MixerExit(n)

EncoderNext ==
    \E n \in Ids :
        \/ EncoderOpen(n)
        \/ EncoderFail(n)
        \/ EncoderDrain(n)
        \/ EncoderFinish(n)
        \/ EncoderTrailerFail(n)

WorkerNext == CaptureNext \/ CompositorNext \/ MixerNext \/ EncoderNext

Next == ManagerNext \/ WorkerNext

Spec == Init /\ [][Next]_vars

\* ------------------------------------------------------------ scheduling
\* the steps of one worker thread
CaptureThread(k, n) == CaptureOpenFail(k, n) \/ CaptureFrame(k, n) \/ CaptureExit(k, n)
CompositorThread(n) == (\E recent \in BOOLEAN : CompositorTick(n, recent)) \/ CompositorExit(n)
MixerThread(n) == MixerCollect(n) \/ MixerMix(n) \/ MixerExit(n)
EncoderThread(n) ==
    \/ EncoderOpen(n) \/ EncoderFail(n) \/ EncoderDrain(n)
    \/ EncoderFinish(n) \/ EncoderTrailerFail(n)

\* the manager thread inside stop(): the calls return, the sleep ends
StopThread == (\E k \in CompKinds : StopComponent(k)) \/ StopFinish

\* every spawned thread keeps being scheduled by the operating system, and
\* a stop() that has begun runs to its end
Fairness ==
    /\ WF_vars(StopThread)
    /\ \A k \in CaptureKinds : \A n \in Ids : WF_vars(CaptureThread(k, n))
    /\ \A n \in Ids : WF_vars(CompositorThread(n))
    /\ \A n \in Ids : WF_vars(MixerThread(n))
    /\ \A n \in Ids : WF_vars(EncoderThread(n))

LiveSpec == Init /\ [][Next]_vars /\ Fairness

\* ------------------------------------------------------------ start and stop alone
\* every RecordingConfig as far as the four capture flags go
AllConfigs == {Cfg(s, w, m, a) : s \in BOOLEAN, w \in BOOLEAN, m \in BOOLEAN, a \in BOOLEAN}

\* the calls of the manager thread, with any configuration, before any worker
\* has taken a step
NextStart ==
    \/ \E cfg \in AllConfigs : \E env \in Envs(cfg) : Start(cfg, env)
    \/ Stop
    \/ \E k \in CompKinds : StopComponent(k)
    \/ StopFinish

SpecStart == Init /\ [][NextStart]_vars

\* ------------------------------------------------------------ frame functions
\* widths and heights of frames and outputs, in pixels
MaxDim == 2
Dims == 1..MaxDim

\* a fast path taken whenever the widths agree
CompositeByWidth(c) ==
    IF ~c.include_webcam /\ c.width = c.output_width
    THEN [is_bgra |-> TRUE, width |-> c.width, height |-> c.height]
    ELSE [is_bgra |-> FALSE, width |-> c.output_width, height |-> c.output_height]

\* compositor.rs:109-155 VideoCompositor::composite with composite_fast_path:
\* the tag and the size of the CompositeFrame it returns
Composite(c) ==
    IF ~c.include_webcam /\ c.width = c.output_width /\ c.height = c.output_height
    THEN [is_bgra |-> TRUE, width |-> c.width, height |-> c.height]
    ELSE [is_bgra |-> FALSE, width |-> c.output_width, height |-> c.output_height]

\* compositor.rs:241-265 VideoCompositor::composite_webcam_only
CompositeWebcamOnly(c) ==
    [is_bgra |-> FALSE, width |-> c.output_width, height |-> c.output_height]

\* a compositor configuration, a frame (screen or webcam) and whether a
\* webcam frame is at hand
CompositeInputs ==
    [include_webcam : BOOLEAN, output_width : Dims, output_height : Dims,
     width : Dims, height : Dims, webcam_frame : BOOLEAN]

\* bytes of row padding, and bytes after the last row
Paddings == {0, 1, 4}
Tails == {0, 2}

\* the channel order of the bytes of a pixel
PixelOrder(format) ==
    IF format = "BGRA" THEN <<"B", "G", "R", "A">> ELSE <<"A", "R", "G", "B">>

\* the formats of the frames a build captures: ScreenCaptureKit is configured
\* with PixelFormat::BGRA (screen_macos.rs:168), to_rgba on macOS expects ARGB
\* (screen.rs:38-45), the other builds capture BGRA (screen.rs:47-54)
FrameFormats(p) == IF p = "macos" THEN {"BGRA", "ARGB"} ELSE {"BGRA"}

\* ScreenFrame.data (0-based): each byte is known by its offset and by what it
\* holds, a channel of a pixel or padding
Data(f) ==
    [i \in 0..(f.height * f.stride + f.tail - 1) |->
        [off |-> i,
         ch |-> IF i < f.height * f.stride /\ i % f.stride < f.width * 4
                THEN PixelOrder(f.format)[((i % f.stride) % 4) + 1]
                ELSE "pad"]]

\* ScreenFrames with stride >= width * 4 and data of height * stride bytes or more
ScreenFrames ==
    {[width |-> w, height |-> ht, stride |-> w * 4 + pad, tail |-> t, format |-> fm] :
        w \in Dims, ht \in Dims, pad \in Paddings, t \in Tails, fm \in {"BGRA", "ARGB"}}

\* screen.rs:38-54 the indices to_rgba pushes for a pixel, relative to its offset
PushOrder(p) == IF p = "macos" THEN <<1, 2, 3, 0>> ELSE <<2, 1, 0, 3>>

\* screen.rs:29-59 ScreenFrame::to_rgba: rows y, pixels x of a row, four pushes each
ToRgba(f, p) ==
    LET data == Data(f)
    IN [i \in 1..(f.height * f.width * 4) |->
           LET n == (i - 1) \div 4
               y == n \div f.width
               x == n % f.width
               row_start == y * f.stride
               offset == row_start + x * 4
           IN data[offset + PushOrder(p)[((i - 1) % 4) + 1]]]

\* recording.rs:79-86 OutputResolution::dimensions
Resolutions == {<<1280, 720>>, <<1920, 1080>>, <<2560, 1440>>, <<3840, 2160>>}

\* compositor.rs:32-35 pip_size_percent "(10-50)", pip_padding (manager.rs:187: 20)
PipSizes == {10, 25, 33, 50}
PipPaddings == {20}
PipPositions == {"TopLeft", "TopRight", "BottomLeft", "BottomRight"}

\* the result of a u32 operation that left the range of u32; a product is
\* taken to leave it already above 2^31 - 1, which is inside the range of u32
Overflow == -1
MaxMul == 2147483647

\* u32 `a - b`, `a * b`, `a / b`
SubU32(a, b) == IF a = Overflow \/ b = Overflow \/ a < b THEN Overflow ELSE a - b
MulU32(a, b) == IF a = Overflow \/ b = Overflow THEN Overflow
                ELSE IF a # 0 /\ b > MaxMul \div a THEN Overflow ELSE a * b
DivU32(a, b) == IF a = Overflow THEN Overflow ELSE a \div b

\* compositor.rs:87-106 VideoCompositor::calculate_pip_position
calculate_pip_position(output_width, output_height, pip_width, pip_height, position, padding) ==
    CASE position = "TopLeft" -> <<padding, padding>>
      [] position = "TopRight" ->
            <<SubU32(SubU32(output_width, pip_width), padding), padding>>
      [] position = "BottomLeft" ->
            <<padding, SubU32(SubU32(output_height, pip_height), padding)>>
      [] position = "BottomRight" ->
            <<SubU32(SubU32(output_width, pip_width), padding),
              SubU32(SubU32(output_height, pip_height), padding)>>

\* a PiP whose height is the same percentage of the output height
NewByOutputAspect(c) ==
    LET pip_width == DivU32(MulU32(c.output_width, c.pip_size_percent), 100)
        pip_height == DivU32(MulU32(c.output_height, c.pip_size_percent), 100)
        pos == calculate_pip_position(c.output_width, c.output_height, pip_width,
                                      pip_height, c.pip_position, c.pip_padding)
    IN [pip_width |-> pip_width, pip_height |-> pip_height,
        pip_x |-> pos[1], pip_y |-> pos[2]]

\* compositor.rs:64-84 VideoCompositor::new: the cached PiP rectangle
New(c) ==
    LET pip_width == DivU32(MulU32(c.output_width, c.pip_size_percent), 100)
        pip_height == DivU32(MulU32(pip_width, 3), 4)
        pos == calculate_pip_position(c.output_width, c.output_height, pip_width,
                                      pip_height, c.pip_position, c.pip_padding)
    IN [pip_width |-> pip_width, pip_height |-> pip_height,
        pip_x |-> pos[1], pip_y |-> pos[2]]

CompositorConfigs ==
    {[output_width |-> r[1], output_height |-> r[2], pip_size_percent |-> pct,
      pip_position |-> pos, pip_padding |-> pad] :
        r \in Resolutions, pct \in PipSizes, pos \in PipPositions, pad \in PipPaddings}

\* recording.rs:112-113 webcam_size: a u32 documented as "(10-50)"; nothing
\* checks it before start() passes it on
WebcamSizes == PipSizes \cup {73, 74, 100}

\* the fields of a RecordingConfig that reach the compositor
RecordingConfigs ==
    [output_resolution : Resolutions, webcam_position : PipPositions,
     webcam_size : WebcamSizes]

\* manager.rs:115 and 181-188: the CompositorConfig start() builds from a config
CompositorConfigOf(cfg) ==
    [output_width |-> cfg.output_resolution[1],
     output_height |-> cfg.output_resolution[2],
     pip_size_percent |-> cfg.webcam_size,
     pip_position |-> cfg.webcam_position,
     pip_padding |-> 20]

\* ------------------------------------------------------------ audio functions
\* channel counts and frames of an audio chunk
MaxChannels == 3
MaxAudioFrames == 2

\* samples[i] of a slice (0-based)
At(samples, i) == samples[i + 1]

\* the input samples of a chunk: sample i is known by its index
Samples(len) == [i \in 1..len |-> <<i - 1>>]

\* (left + right) / 2.0
Average(left, right) == left \o right

\* the generic arm that fills an extra channel with the frame's last channel
ConvertFrameFillLast(samples, i, from_channels, to_channels) ==
    IF from_channels = 1 /\ to_channels = 2
    THEN <<At(samples, i), At(samples, i)>>
    ELSE IF from_channels = 2 /\ to_channels = 1
    THEN <<Average(At(samples, i * 2), At(samples, i * 2 + 1))>>
    ELSE [c \in 1..to_channels |->
            IF c - 1 < from_channels
            THEN At(samples, i * from_channels + (c - 1))
            ELSE At(samples, i * from_channels + from_channels - 1)]

\* audio_mixer.rs:248-267 what one iteration of the loop of convert_channels pushes
ConvertFrame(samples, i, from_channels, to_channels) ==
    IF from_channels = 1 /\ to_channels = 2
    THEN <<At(samples, i), At(samples, i)>>
    ELSE IF from_channels = 2 /\ to_channels = 1
    THEN <<Average(At(samples, i * 2), At(samples, i * 2 + 1))>>
    ELSE [c \in 1..to_channels |->
            IF c - 1 < from_channels
            THEN At(samples, i * from_channels + (c - 1))
            ELSE At(samples, i * from_channels)]

\* the frames i, i + 1, .., num_frames - 1 of the loop
RECURSIVE ConvertFrom(_, _, _, _, _)
ConvertFrom(samples, i, num_frames, from_channels, to_channels) ==
    IF i >= num_frames THEN <<>>
    ELSE ConvertFrame(samples, i, from_channels, to_channels)
         \o ConvertFrom(samples, i + 1, num_frames, from_channels, to_channels)

\* audio_mixer.rs:239-271 convert_channels
convert_channels(samples, from_channels, to_channels) ==
    IF from_channels = to_channels THEN samples
    ELSE LET num_frames == Len(samples) \div from_channels
         IN ConvertFrom(samples, 0, num_frames, from_channels, to_channels)

\* chunks of whole frames, and chunks that end inside a frame
ChannelInputs ==
    {[samples |-> Samples(n * f + r), from_channels |-> f, to_channels |-> t] :
        n \in 0..MaxAudioFrames, f \in 1..MaxChannels, t \in 1..MaxChannels,
        r \in {0, 1}}

\* samples waiting in one internal buffer of the mixer, and rounds of the loop
MaxBuffered == 5
MaxMixRounds == 4

\* the k-th sample a source appended to its buffer
SourceSamples(source, len) == [k \in 1..len |-> <<source, k>>]

\* 0.0, what a source that lags behind is mixed as
Silence == <<"silence", 0>>

\* soft_clip(mic_sample + system_sample): the two samples that were summed
soft_clip_sum(mic_sample, system_sample) == <<mic_sample, system_sample>>

\* a mixer that never drains the system buffer
mix_buffers_keep_system(mic_buffer, system_buffer, samples_needed) ==
    LET mic_available == Min(Len(mic_buffer), samples_needed)
        system_available == Min(Len(system_buffer), samples_needed)
    IN [mixed |-> [i \in 1..samples_needed |->
                     soft_clip_sum(IF i - 1 < mic_available THEN mic_buffer[i] ELSE Silence,
                                   IF i - 1 < system_available THEN system_buffer[i]
                                   ELSE Silence)],
        mic_buffer |-> SubSeq(mic_buffer, mic_available + 1, Len(mic_buffer)),
        system_buffer |-> system_buffer]

\* audio_mixer.rs:304-342 mix_buffers: the block it returns and the two buffers
\* after the drains
mix_buffers(mic_buffer, system_buffer, samples_needed) ==
    LET mic_available == Min(Len(mic_buffer), samples_needed)
        system_available == Min(Len(system_buffer), samples_needed)
    IN [mixed |-> [i \in 1..samples_needed |->
                     soft_clip_sum(IF i - 1 < mic_available THEN mic_buffer[i] ELSE Silence,
                                   IF i - 1 < system_available THEN system_buffer[i]
                                   ELSE Silence)],
        mic_buffer |-> SubSeq(mic_buffer, mic_available + 1, Len(mic_buffer)),
        system_buffer |-> SubSeq(system_buffer, system_available + 1, Len(system_buffer))]

\* a loop that waits until both sources hold a block
BothHold(mic_buffer, system_buffer, samples_per_chunk) ==
    Len(mic_buffer) >= samples_per_chunk /\ Len(system_buffer) >= samples_per_chunk

\* audio_mixer.rs:187 the test of the production loop
EitherHolds(mic_buffer, system_buffer, samples_per_chunk) ==
    Len(mic_buffer) >= samples_per_chunk \/ Len(system_buffer) >= samples_per_chunk

\* audio_mixer.rs:186-204 the production loop of one tick: the blocks it mixed,
\* the buffers it leaves, and whether it ended within `rounds` iterations
RECURSIVE MixWhile(_, _, _, _)
MixWhile(mic_buffer, system_buffer, samples_per_chunk, rounds) ==
    IF ~EitherHolds(mic_buffer, system_buffer, samples_per_chunk)
    THEN [blocks |-> <<>>, mic_buffer |-> mic_buffer, system_buffer |-> system_buffer,
          finished |-> TRUE]
    ELSE IF rounds = 0
    THEN [blocks |-> <<>>, mic_buffer |-> mic_buffer, system_buffer |-> system_buffer,
          finished |-> FALSE]
    ELSE LET m == mix_buffers(mic_buffer, system_buffer, samples_per_chunk)
             rest == MixWhile(m.mic_buffer, m.system_buffer, samples_per_chunk, rounds - 1)
         IN [rest EXCEPT !.blocks = (IF m.mixed # <<>> THEN <<m.mixed>> ELSE <<>>) \o @]

\* the two buffers at the start of the production loop
MixInputs ==
    {[mic_buffer |-> SourceSamples("mic", m), system_buffer |-> SourceSamples("system", s)] :
        m \in 0..MaxBuffered, s \in 0..MaxBuffered}

\* the calls of the pure functions
PureCalls ==
    {[fn |-> f, in |-> c, out |-> <<>>, done |-> FALSE] :
        f \in {"composite", "composite_webcam_only"}, c \in CompositeInputs}
    \cup {[fn |-> "to_rgba", in |-> f, out |-> <<>>, done |-> FALSE] : f \in ScreenFrames}
    \cup {[fn |-> "new", in |-> c, out |-> <<>>, done |-> FALSE] : c \in CompositorConfigs}
    \cup {[fn |-> "start_new", in |-> c, out |-> <<>>, done |-> FALSE] :
              c \in RecordingConfigs}
    \cup {[fn |-> "convert_channels", in |-> c, out |-> <<>>, done |-> FALSE] :
              c \in ChannelInputs}
    \cup {[fn |-> f, in |-> c, out |-> <<>>, done |-> FALSE] :
              f \in {"mix_buffers", "mix_loop"}, c \in MixInputs}

InitPure ==
    /\ platform \in Platforms
    /\ frames = 0
    /\ InitManager
    /\ pure \in PureCalls
    /\ ext = NewExternalRecorder
    /\ encoder_input = NoVideo
    /\ instance = NoInstance
    /\ recording_state = NewRecordingState
    /\ pure.fn = "to_rgba" => pure.in.format \in FrameFormats(platform)

\* everything but the call
progVars == <<platform, status, stop_signal, compositor_running, config, h, running,
              wpc, rxTaken, wire, cmode, q, sent, frames, cfc, skipped_frames,
              latest_webcam, overlay, mbuf, attempts, mpc, pendingErr, ret>>

\* the function returns
Return(f, result) ==
    /\ pure.fn = f
    /\ ~pure.done
    /\ pure' = [pure EXCEPT !.out = result, !.done = TRUE]
    /\ UNCHANGED <<progVars, ext, encoder_input, instance, recording_state>>

CallComposite == Return("composite", Composite(pure.in))

CallCompositeWebcamOnly == Return("composite_webcam_only", CompositeWebcamOnly(pure.in))

CallToRgba == Return("to_rgba", ToRgba(pure.in, platform))

CallNew == Return("new", New(pure.in))

\* manager.rs:190 VideoCompositor::new(compositor_config)
CallStartNew == Return("start_new", New(CompositorConfigOf(pure.in)))

CallConvertChannels ==
    Return("convert_channels",
           convert_channels(pure.in.samples, pure.in.from_channels, pure.in.to_channels))

CallMixBuffers ==
    Return("mix_buffers",
           mix_buffers(pure.in.mic_buffer, pure.in.system_buffer, SamplesPerChunk))

CallMixLoop ==
    Return("mix_loop",
           MixWhile(pure.in.mic_buffer, pure.in.system_buffer, SamplesPerChunk, MaxMixRounds))

NextPure ==
    \/ CallComposite
    \/ CallCompositeWebcamOnly
    \/ CallToRgba
    \/ CallNew
    \/ CallStartNew
    \/ CallConvertChannels
    \/ CallMixBuffers
    \/ CallMixLoop

SpecPure == InitPure /\ [][NextPure]_vars

\* ------------------------------------------------------------ encoder input
\* composites and mixed chunks sent to the encoder in one run
MaxEncFrames == 2
MaxEncChunks == 2

\* audio_encoder.frame_size(): samples per channel of one audio frame
\* (encoder.rs:384), and the lengths of the mixed chunks that arrive
FrameSize == 2
EncChunkLens == {2, 10}

\* residual packets an encoder returns after end-of-stream
MaxResidual == 1

\* the encoder with FFmpeg (encoder.rs:248) and without it (encoder.rs:154)
EncoderBuilds == {"ffmpeg", "fallback"}

\* encoder.rs:373-381, 399-404 the source format of the scaler and of the frame
\* it is run on; encoder.rs:190-194 RgbaImage::from_raw in the fallback loop
SourcePixel(composite_frame, build) == "RGBA"

\* manager.rs:324-333 the compositor of a session, and the branch of
\* compositor_loop the session's sources select (manager.rs:503, 558)
VideoConfigs ==
    {c \in [include_webcam : BOOLEAN, output_width : Dims, output_height : Dims,
            mode : {"screen", "webcam"}] : c.mode = "webcam" => c.include_webcam}

\* encoder.rs:84-135, 259-392 Encoder::start has set `running` and spawned the
\* worker, which has written the header and stands at the test of its loop
\* with frame_count = 0, audio_pts = 0 and an empty audio_buffer; both
\* producers hold their senders
Started(c, build) ==
    [NoVideo EXCEPT !.config = c, !.build = build, !.running = TRUE, !.pc = "test",
                    !.senders = {"video", "audio"}]

\* the capture build plays no part in the encoder; the output has the largest
\* size, the captured frames any size
InitEncode ==
    /\ platform = "fallback"
    /\ frames = 0
    /\ InitManager
    /\ pure = NoCall
    /\ ext = NewExternalRecorder
    /\ instance = NoInstance
    /\ recording_state = NewRecordingState
    /\ encoder_input \in {Started(c, build) :
                              c \in {v \in VideoConfigs : /\ v.output_width = MaxDim
                                                          /\ v.output_height = MaxDim},
                              build \in EncoderBuilds}

\* manager.rs:520-527, 566-568 the compositor composites a captured frame of
\* width x height and sends the result to the encoder
CompositeSend(width, height, webcam_frame) ==
    /\ encoder_input.sent < MaxEncFrames
    /\ "video" \in encoder_input.senders
    /\ LET c == [include_webcam |-> encoder_input.config.include_webcam,
                 output_width |-> encoder_input.config.output_width,
                 output_height |-> encoder_input.config.output_height,
                 width |-> width, height |-> height, webcam_frame |-> webcam_frame]
           composite == IF encoder_input.config.mode = "screen" THEN Composite(c)
                        ELSE CompositeWebcamOnly(c)
       IN encoder_input' = [encoder_input EXCEPT !.queue = Append(@, composite), !.sent = @ + 1]
    /\ UNCHANGED <<progVars, pure, ext, instance, recording_state>>

\* audio_mixer.rs:194-203 the mixer sends a mixed chunk of len samples
MixedSend(len) ==
    /\ encoder_input.audio_sent < MaxEncChunks
    /\ "audio" \in encoder_input.senders
    /\ encoder_input' = [encoder_input EXCEPT !.audio_queue = Append(@, len),
                                               !.audio_sent = @ + 1]
    /\ UNCHANGED <<progVars, pure, ext, instance, recording_state>>

\* manager.rs:455-598, audio_mixer.rs:132-209 a producer thread ends and drops
\* its sender
SenderDrop(k) ==
    /\ k \in encoder_input.senders
    /\ encoder_input' = [encoder_input EXCEPT !.senders = @ \ {k}]
    /\ UNCHANGED <<progVars, pure, ext, instance, recording_state>>

\* encoder.rs:138-144 Encoder::stop; `at_stop` keeps how many frames and chunks
\* had been enqueued when it was called
EncoderStop ==
    /\ encoder_input.running
    /\ encoder_input' = [encoder_input EXCEPT
                           !.running = FALSE,
                           !.at_stop = [video |-> encoder_input.sent,
                                        audio |-> encoder_input.audio_sent]]
    /\ UNCHANGED <<progVars, pure, ext, instance, recording_state>>

\* encoder.rs:394 (encoder.rs:182) `while *running.lock()`
EncoderLoopTest ==
    /\ encoder_input.pc = "test"
    /\ encoder_input' = [encoder_input EXCEPT
                           !.pc = IF encoder_input.running THEN "video" ELSE "flush"]
    /\ UNCHANGED <<progVars, pure, ext, instance, recording_state>>

\* a counter that only counts the frames the encoder accepted
FrameCountIfEncoded(frame_count, scaled_ok, encoded_ok) ==
    IF scaled_ok /\ encoded_ok THEN frame_count + 1 ELSE frame_count

\* encoder.rs:407-427 frame_count after a frame: `continue` skips the
\* increment, an error of encode_video_frame does not
FrameCountAfter(frame_count, scaled_ok, encoded_ok) ==
    IF scaled_ok THEN frame_count + 1 ELSE frame_count

\* encoder.rs:396-428 (encoder.rs:185-211 without FFmpeg) `while let Ok(..) =
\* receiver.try_recv()`: the encoder takes a frame from the video queue and
\* converts it; when scaler.run fails the frame is left out (`continue`),
\* otherwise it gets pts = frame_count, is handed to encode_video_frame, whose
\* error is printed, and frame_count is incremented
EncoderTake(scaled_ok, encoded_ok) ==
    /\ encoder_input.pc = "video"
    /\ encoder_input.queue # <<>>
    /\ encoder_input.build = "fallback" => scaled_ok /\ encoded_ok
    /\ encoder_input' = [encoder_input EXCEPT
          !.queue = Tail(@),
          !.scaled = Append(@, [frame |-> Head(encoder_input.queue),
                                source |-> SourcePixel(Head(encoder_input.queue),
                                                       encoder_input.build),
                                submitted |-> scaled_ok,
                                accepted |-> scaled_ok /\ encoded_ok,
                                pts |-> encoder_input.frame_count]),
          !.frame_count = FrameCountAfter(@, scaled_ok, encoded_ok)]
    /\ UNCHANGED <<progVars, pure, ext, instance, recording_state>>

\* try_recv on the video queue returns Err (Empty or Disconnected): the inner
\* loop ends; without FFmpeg the audio receiver is never read (encoder.rs:158)
EncoderVideoEmpty ==
    /\ encoder_input.pc = "video"
    /\ encoder_input.queue = <<>>
    /\ encoder_input' = [encoder_input EXCEPT
                           !.pc = IF encoder_input.build = "ffmpeg" THEN "audio" ELSE "test"]
    /\ UNCHANGED <<progVars, pure, ext, instance, recording_state>>

\* encoder.rs:436-463 the complete audio frames cut from a buffer of `buffered`
\* samples: each takes FrameSize * Channels samples, gets pts = audio_pts and
\* advances audio_pts by FrameSize
RECURSIVE AudioFrames(_, _)
AudioFrames(buffered, audio_pts) ==
    IF buffered >= FrameSize * Channels
    THEN <<[pts |-> audio_pts, samples |-> (FrameSize * Channels) \div Channels]>>
         \o AudioFrames(buffered - FrameSize * Channels, audio_pts + FrameSize)
    ELSE <<>>

\* encoder.rs:432-465 the encoder takes a mixed chunk, extends audio_buffer and
\* encodes the complete frames
EncoderTakeAudio ==
    /\ encoder_input.pc = "audio"
    /\ encoder_input.audio_queue # <<>>
    /\ LET buffered == encoder_input.audio_buffer + Head(encoder_input.audio_queue)
           cut == AudioFrames(buffered, encoder_input.audio_pts)
       IN encoder_input' = [encoder_input EXCEPT
             !.audio_queue = Tail(@),
             !.audio_buffer = buffered - Len(cut) * FrameSize * Channels,
             !.audio_pts = @ + Len(cut) * FrameSize,
             !.audio_frames = @ \o cut]
    /\ UNCHANGED <<progVars, pure, ext, instance, recording_state>>

\* try_recv on the audio queue returns Err; the iteration ends in the 1 ms
\* sleep (encoder.rs:468)
EncoderAudioEmpty ==
    /\ encoder_input.pc = "audio"
    /\ encoder_input.audio_queue = <<>>
    /\ encoder_input' = [encoder_input EXCEPT !.pc = "test"]
    /\ UNCHANGED <<progVars, pure, ext, instance, recording_state>>

\* a flush that receives the residual packets and writes none of them
FlushUnwritten(stream, eof_ok, residual) ==
    <<[ev |-> "eof", stream |-> stream, returned |-> IF eof_ok THEN residual ELSE 0]>>

\* encoder.rs:579-621 flush_video_encoder / flush_audio_encoder: send_eof, and
\* when it succeeded every packet receive_packet returns is written; `returned`
\* is the number of packets the encoder returned
Flush(stream, eof_ok, residual) ==
    <<[ev |-> "eof", stream |-> stream, returned |-> IF eof_ok THEN residual ELSE 0]>>
    \o (IF eof_ok THEN [i \in 1..residual |-> [ev |-> "packet", stream |-> stream]]
        ELSE <<>>)

\* encoder.rs:471-496 after the loop: both encoders are flushed, their results
\* ignored, and the trailer is written; its failure is the Err the worker
\* prints (encoder.rs:109-117)
EncoderFlush(video_eof, video_residual, audio_eof, audio_residual, trailer_ok) ==
    /\ encoder_input.pc = "flush"
    /\ encoder_input.build = "ffmpeg"
    /\ ~video_eof => video_residual = 0
    /\ ~audio_eof => audio_residual = 0
    /\ encoder_input' = [encoder_input EXCEPT
          !.out = @ \o Flush("video", video_eof, video_residual)
                    \o Flush("audio", audio_eof, audio_residual)
                    \o <<[ev |-> "trailer", ok |-> trailer_ok]>>,
          !.pc = IF trailer_ok THEN "done" ELSE "failed"]
    /\ UNCHANGED <<progVars, pure, ext, instance, recording_state>>

\* encoder.rs:217-245 without FFmpeg the metadata file is written
EncoderMetadata ==
    /\ encoder_input.pc = "flush"
    /\ encoder_input.build = "fallback"
    /\ encoder_input' = [encoder_input EXCEPT !.pc = "done"]
    /\ UNCHANGED <<progVars, pure, ext, instance, recording_state>>

\* the steps of the encoder worker
EncoderWorker ==
    \/ EncoderLoopTest
    \/ \E scaled_ok \in BOOLEAN : \E encoded_ok \in BOOLEAN : EncoderTake(scaled_ok, encoded_ok)
    \/ EncoderVideoEmpty
    \/ EncoderTakeAudio
    \/ EncoderAudioEmpty
    \/ \E video_eof \in BOOLEAN : \E audio_eof \in BOOLEAN : \E trailer_ok \in BOOLEAN :
          \E video_residual \in 0..MaxResidual : \E audio_residual \in 0..MaxResidual :
             EncoderFlush(video_eof, video_residual, audio_eof, audio_residual, trailer_ok)
    \/ EncoderMetadata

NextEncode ==
    \/ \E width \in Dims : \E height \in Dims : \E webcam_frame \in BOOLEAN :
          CompositeSend(width, height, webcam_frame)
    \/ \E len \in EncChunkLens : MixedSend(len)
    \/ \E k \in {"video", "audio"} : SenderDrop(k)
    \/ EncoderStop
    \/ EncoderWorker

SpecEncode == InitEncode /\ [][NextEncode]_vars

\* the encoder thread is scheduled; nothing makes its owner call stop()
LiveEncode == SpecEncode /\ WF_vars(EncoderWorker)

\* ------------------------------------------------------------ one component
\* workers one instance spawns in a run
MaxStarts == 3

\* <Component>::new: the running flag is false and no worker exists
NewInstance(kind) == [NoInstance EXCEPT !.kind = kind]

InitInstance ==
    /\ platform = "fallback"
    /\ frames = 0
    /\ InitManager
    /\ pure = NoCall
    /\ ext = NewExternalRecorder
    /\ encoder_input = NoVideo
    /\ recording_state = NewRecordingState
    /\ instance \in {NewInstance(kind) : kind \in CompKinds}

\* screen_fallback.rs:57-80, audio.rs:148-176, audio_mixer.rs:89-120 (and
\* screen.rs:126, webcam.rs:104, system_audio_fallback.rs:128, encoder.rs:84)
\* start(): returns Err when the flag is set; otherwise sets it and spawns a
\* thread that holds a clone of the flag
InstanceStart ==
    /\ IF instance.running
       THEN instance' = [instance EXCEPT !.res = "AlreadyRunning"]
       ELSE /\ Len(instance.workers) < MaxStarts
            /\ instance' = [instance EXCEPT !.running = TRUE,
                                            !.workers = Append(@, "alive"),
                                            !.res = "Ok"]
    /\ UNCHANGED <<progVars, pure, ext, encoder_input, recording_state>>

\* screen_fallback.rs:83-86, audio.rs:179-183, audio_mixer.rs:123-127 stop():
\* clears the flag and returns; no thread is joined
InstanceStop ==
    /\ instance' = [instance EXCEPT !.running = FALSE, !.res = "Stopped"]
    /\ UNCHANGED <<progVars, pure, ext, encoder_input, recording_state>>

\* `while *running.lock()` of a worker reads false (screen_fallback.rs:123,
\* audio.rs:294, audio_mixer.rs:145): the thread ends
WorkerExit(w) ==
    /\ instance.workers[w] = "alive"
    /\ ~instance.running
    /\ instance' = [instance EXCEPT !.workers[w] = "ended"]
    /\ UNCHANGED <<progVars, pure, ext, encoder_input, recording_state>>

\* the loop of a capture or encoder thread returns Err (screen_fallback.rs:74-76,
\* audio.rs:165-167): the thread ends, the flag stays as it is
WorkerFail(w) ==
    /\ instance.kind # "mixer"
    /\ instance.workers[w] = "alive"
    /\ instance' = [instance EXCEPT !.workers[w] = "ended"]
    /\ UNCHANGED <<progVars, pure, ext, encoder_input, recording_state>>

NextInstance ==
    \/ InstanceStart
    \/ InstanceStop
    \/ \E w \in DOMAIN instance.workers : WorkerExit(w)
    \/ \E w \in DOMAIN instance.workers : WorkerFail(w)

SpecInstance == InitInstance /\ [][NextInstance]_vars

\* ------------------------------------------------------------ external frames
\* frames enqueued and sessions started in one run
MaxExtFrames == 2
MaxExtSessions == 1

\* external_recorder.rs:218 bounded::<CompositeFrame>(120)
ExternalCapacity == 120

\* widths and heights of configurations and of frames, lengths of frame data
ExtWidths == {2, 65536}
ExtHeights == {1, 65536}
ExtLengths == {0, 4, 8}
Builds == {"debug", "release"}

\* u32 `a * b` for a, b <= 2^16, as the two 16-bit halves of the wrapped
\* product and whether it left the range of u32
MulWide(a, b) ==
    LET a1 == a \div 256
        a0 == a % 256
        b1 == b \div 256
        b0 == b % 256
        low == (a1 * b0 + a0 * b1) * 256 + a0 * b0
        high == a1 * b1 + low \div 65536
    IN [hi |-> high % 65536, lo |-> low % 65536, overflow |-> high >= 65536]

\* u32 `v * 4` of a value held in halves
Times4(v) ==
    LET low == v.lo * 4
        high == v.hi * 4 + low \div 65536
    IN [hi |-> high % 65536, lo |-> low % 65536,
        overflow |-> v.overflow \/ high >= 65536]

\* external_recorder.rs:285 `(width * height * 4) as usize`
ExpectedSize(width, height) == Times4(MulWide(width, height))

\* external_recorder.rs:286 `data.len() != expected_size` (data.len() < 2^16)
SizeDiffers(len, expected) == expected.hi # 0 \/ expected.lo # len

\* external_recorder.rs:81-202 start, with start_pipeline; `ok` is whether the
\* audio components and the encoder started
ExtStart(cfg, ok) ==
    /\ ext.is_recording \/ ext.sessions < MaxExtSessions
    /\ IF ext.is_recording
       THEN ext' = [ext EXCEPT !.res = "Err"]
       ELSE ext' = [ext EXCEPT !.frame_count = 0,
                               !.encoder = TRUE,
                               !.config = <<cfg>>,
                               !.frame_sender = TRUE,
                               !.queue = <<>>,
                               !.error_pending = FALSE,
                               !.worker = IF ok THEN "run" ELSE "none",
                               !.is_recording = ok,
                               !.status_frame_count = IF ok THEN 0 ELSE @,
                               !.sessions = @ + 1,
                               !.res = IF ok THEN "Ok" ELSE "Err"]
    /\ UNCHANGED <<progVars, pure, encoder_input, instance, recording_state>>

\* external_recorder.rs:255-333 receive_frame
ReceiveFrameBody(e, width, height, len, build) ==
    IF ~e.is_recording THEN [e EXCEPT !.res = "Err"]
    ELSE IF e.config = <<>> THEN [e EXCEPT !.res = "Err"]
    ELSE IF width # e.config[1].output_width \/ height # e.config[1].output_height
    THEN [e EXCEPT !.res = "Err"]
    ELSE LET expected_size == ExpectedSize(width, height)
         IN IF expected_size.overflow /\ build = "debug"
            THEN [e EXCEPT !.res = "panic"]
            ELSE IF SizeDiffers(len, expected_size) THEN [e EXCEPT !.res = "Err"]
            ELSE IF ~e.frame_sender THEN [e EXCEPT !.res = "Err"]
            ELSE LET frame == [width |-> width, height |-> height, len |-> len,
                               is_bgra |-> FALSE]
                     r == TrySend(e.queue, ExternalCapacity, e.encoder, frame)
                     count == e.frame_count + 1
                 IN IF r.res = "Ok"
                    THEN [e EXCEPT !.queue = r.q,
                                   !.pushed = @ + 1,
                                   !.frame_count = count,
                                   !.status_frame_count =
                                       IF count % StatusEvery = 0 THEN count ELSE @,
                                   !.res = "Ok"]
                    ELSE IF r.res = "Full" THEN [e EXCEPT !.res = "Ok"]
                    ELSE [e EXCEPT !.res = "Err"]

ReceiveFrame(width, height, len, build) ==
    /\ ext.pushed < MaxExtFrames
    /\ ext' = ReceiveFrameBody(ext, width, height, len, build)
    /\ UNCHANGED <<progVars, pure, encoder_input, instance, recording_state>>

\* encoder.rs:396-397 the encoder thread takes a frame from the channel
ExtEncoderTake ==
    /\ ext.worker = "run"
    /\ ext.queue # <<>>
    /\ ext' = [ext EXCEPT !.queue = Tail(@)]
    /\ UNCHANGED <<progVars, pure, encoder_input, instance, recording_state>>

\* encoder.rs:106-130 the encoder thread ends, with an error message or without
ExtEncoderExit(failed) ==
    /\ ext.worker = "run"
    /\ ext' = [ext EXCEPT !.worker = "done", !.error_pending = failed]
    /\ UNCHANGED <<progVars, pure, encoder_input, instance, recording_state>>

\* external_recorder.rs:336-391 stop
ExtStopBody(e) ==
    IF ~e.is_recording THEN [e EXCEPT !.res = "Err"]
    ELSE [e EXCEPT !.frame_sender = FALSE, !.is_recording = FALSE, !.config = <<>>,
                   !.encoder = FALSE, !.error_pending = FALSE, !.res = "Ok"]

ExtStop ==
    /\ ext' = ExtStopBody(ext)
    /\ UNCHANGED <<progVars, pure, encoder_input, instance, recording_state>>

\* external_recorder.rs:65-78, 398-416 status, with handle_encoder_errors
ExtStatus ==
    /\ ext' = IF ext.error_pending
              THEN [ExtStopBody(ext) EXCEPT !.is_recording = FALSE, !.res = "Ok"]
              ELSE [ext EXCEPT !.res = "Ok"]
    /\ UNCHANGED <<progVars, pure, encoder_input, instance, recording_state>>

ExtConfigs == [output_width : ExtWidths, output_height : ExtHeights]

\* a session that has enqueued all but one of the frames its channel holds,
\* none of them taken by the encoder yet
ExtLoaded(cfg) ==
    LET n == ExternalCapacity - 1
        frame == [width |-> cfg.output_width, height |-> cfg.output_height,
                  len |-> 8, is_bgra |-> FALSE]
    IN [NewExternalRecorder EXCEPT
           !.is_recording = TRUE, !.config = <<cfg>>, !.frame_sender = TRUE,
           !.encoder = TRUE, !.worker = "run", !.queue = [i \in 1..n |-> frame],
           !.frame_count = n, !.status_frame_count = (n \div StatusEvery) * StatusEvery,
           !.sessions = 1, !.res = "Ok"]

InitExternal ==
    /\ platform \in Platforms
    /\ frames = 0
    /\ InitManager
    /\ pure = NoCall
    /\ encoder_input = NoVideo
    /\ instance = NoInstance
    /\ recording_state = NewRecordingState
    /\ \/ ext = NewExternalRecorder
       \/ ext = ExtLoaded([output_width |-> 2, output_height |-> 1])

NextExternal ==
    \/ \E cfg \in ExtConfigs : \E ok \in BOOLEAN : ExtStart(cfg, ok)
    \/ \E width \in ExtWidths : \E height \in ExtHeights : \E len \in ExtLengths :
          \E build \in Builds : ReceiveFrame(width, height, len, build)
    \/ ExtEncoderTake
    \/ \E failed \in BOOLEAN : ExtEncoderExit(failed)
    \/ ExtStop
    \/ ExtStatus

SpecExternal == InitExternal /\ [][NextExternal]_vars

\* ------------------------------------------------------------ loaded session
\* the sequence a, a+1, .., b
Range(a, b) == [i \in 1..(b - a + 1) |-> a + i - 1]

\* the sources start(cfg) creates when every component can be created
Created(cfg) == {k \in CaptureKinds : CASE k = "screen" -> cfg.capture_screen
                                        [] k = "webcam" -> cfg.capture_webcam
                                        [] k = "mic" -> cfg.capture_mic
                                        [] k = "sys" -> cfg.capture_system_audio}

\* composite frames the compositor can have queued before its backpressure
\* rule or the capacity stops it (manager.rs:509-515, 560-561)
Queued(cfg) == IF cfg.capture_screen THEN CompositeCapacity - 1 ELSE PressureThreshold

\* Session 1 as start(cfg) leaves it (manager.rs:112-223), some time later: the
\* encoder is still setting up and has taken nothing.  With video only, the
\* compositor has queued one composite per captured frame and the video queue
\* has filled up behind it; with audio, the mixer has not run yet, the audio
\* queue has filled up, and a video capture thread could not open its device.
\* Every loaded queue is one item short of full.
InitLoaded(cfg) ==
    LET on == Created(cfg)
        audio == on \cap {"mic", "sys"}
        video == IF audio = {} THEN on \cap {"screen", "webcam"} ELSE {}
        g == IF video = {} THEN 0 ELSE Queued(cfg)
        first(k) == IF k \in video THEN g + 1 ELSE 1
        last(k) == first(k) + Capacity(k) - 2
        loaded(k) == k \in video \cup audio
    IN /\ status = [is_recording |-> TRUE,
                    frame_count |-> (g \div StatusEvery) * StatusEvery,
                    output_path |-> 1, error |-> "none"]
       /\ stop_signal = FALSE
       /\ compositor_running = TRUE
       /\ config = <<cfg>>
       /\ h = [x \in HandleNames |->
                 IF \E k \in CaptureKinds \ on : HandleOf(k) = x THEN 0 ELSE 1]
       /\ running = [k \in CompKinds |-> [n \in Ids |->
                       n = 1 /\ k \in on \cup {"mixer", "encoder"}]]
       /\ wpc = [k \in WorkerKinds |-> [n \in Ids |->
                   IF n # 1 \/ k \in CaptureKinds \ on THEN "none"
                   ELSE IF k = "encoder" THEN "init"
                   ELSE IF k \in CaptureKinds /\ ~loaded(k) /\ ~IsSck(k) THEN "failed"
                   ELSE "run"]]
       /\ rxTaken = [k \in CaptureKinds |-> IF k \in on THEN {1} ELSE {}]
       /\ wire = [w \in {"cs", "cw", "mm", "ms"} |-> [n \in Ids |->
                    IF n = 1 /\ \E k \in on : w = CASE k = "screen" -> "cs"
                                                    [] k = "webcam" -> "cw"
                                                    [] k = "mic" -> "mm"
                                                    [] k = "sys" -> "ms"
                    THEN 1 ELSE 0]]
       /\ cmode = [n \in Ids |-> IF n = 1 /\ ~cfg.capture_screen
                                 THEN "webcam" ELSE "screen"]
       /\ q = [k \in QueueKinds |-> [n \in Ids |->
                 IF n # 1 THEN <<>>
                 ELSE IF k = "composite" THEN Range(1, g)
                 ELSE IF k \in CaptureKinds /\ loaded(k) THEN Range(first(k), last(k))
                 ELSE <<>>]]
       /\ sent = [k \in CaptureKinds |-> [n \in Ids |->
                    IF n = 1 /\ loaded(k) THEN last(k) ELSE 0]]
       /\ cfc = [n \in Ids |-> IF n = 1 THEN g ELSE 0]
       /\ skipped_frames = [n \in Ids |-> 0]
       /\ latest_webcam = [n \in Ids |-> 0]
       /\ overlay = [n \in Ids |-> 0]
       /\ mbuf = [n \in Ids |-> [mic |-> 0, sys |-> 0, ts |-> 0]]
       /\ attempts = 1
       /\ mpc = "idle"
       /\ pendingErr = "none"
       /\ ret = Ret("start", "Ok", 0, [is_recording |-> TRUE, frame_count |-> 0,
                                       output_path |-> 1, error |-> "none"])
   
InitQ ==
    /\ platform \in Platforms
    /\ pure = NoCall
    /\ ext = NewExternalRecorder
    /\ encoder_input = NoVideo
    /\ instance = NoInstance
    /\ recording_state = NewRecordingState
    /\ frames = MaxBurst
    /\ \E cfg \in Configs : Created(cfg) \cap {"screen", "webcam"} # {} /\ InitLoaded(cfg)

\* the workers of the session while it records
NextQ ==
    \/ \E k \in CaptureKinds : CaptureFrame(k, 1)
    \/ \E recent \in BOOLEAN : CompositorTick(1, recent)
    \/ MixerCollect(1)
    \/ MixerMix(1)
    \/ EncoderOpen(1)
    \/ EncoderDrain(1)

SpecQueue == InitQ /\ [][NextQ]_vars

\* the loaded session while it records and while stop() ends it
NextS ==
    \/ NextQ
    \/ Stop
    \/ \E k \in CompKinds : StopComponent(k)
    \/ StopFinish
    \/ \E k \in CaptureKinds : CaptureExit(k, 1)
    \/ CompositorExit(1)
    \/ MixerExit(1)
    \/ EncoderFinish(1)

SpecStop == InitQ /\ [][NextS]_vars

\* the video path of a loaded session with a webcam: screen with overlay, or
\* webcam only
InitOverlay ==
    /\ platform \in Platforms
    /\ pure = NoCall
    /\ ext = NewExternalRecorder
    /\ encoder_input = NoVideo
    /\ instance = NoInstance
    /\ recording_state = NewRecordingState
    /\ frames = MaxBurst
    /\ \E s \in BOOLEAN : InitLoaded(Cfg(s, TRUE, FALSE, FALSE))

NextOverlay ==
    \/ \E k \in {"screen", "webcam"} : CaptureFrame(k, 1)
    \/ \E recent \in BOOLEAN : CompositorTick(1, recent)
    \/ EncoderOpen(1)
    \/ EncoderDrain(1)

SpecOverlay == InitOverlay /\ [][NextOverlay]_vars

\* a screen-only session that is stopped and followed by a second one: the
\* manager calls, the screen captures and the compositors
InitRestart ==
    /\ platform \in Platforms
    /\ pure = NoCall
    /\ ext = NewExternalRecorder
    /\ encoder_input = NoVideo
    /\ instance = NoInstance
    /\ recording_state = NewRecordingState
    /\ frames = MaxFrames
    /\ InitLoaded(Cfg(TRUE, FALSE, FALSE, FALSE))

NextRestart ==
    \/ \E env \in Envs(Cfg(TRUE, FALSE, FALSE, FALSE)) :
          StartUpTo(Cfg(TRUE, FALSE, FALSE, FALSE), env, MaxSessions + 1)
    \/ Stop
    \/ \E k \in CompKinds : StopComponent(k)
    \/ StopFinish
    \/ \E n \in Ids : CaptureFrame("screen", n)
    \/ \E n \in Ids : CaptureExit("screen", n)
    \/ \E n \in Ids : \E recent \in BOOLEAN : CompositorTick(n, recent)
    \/ \E n \in Ids : CompositorExit(n)

SpecRestart == InitRestart /\ [][NextRestart]_vars

\* ------------------------------------------------------------ commands
\* The Tauri commands of recording.rs on one RecordingState, served one at a
\* time.  A command that calls the manager clears `ret`, the manager call
\* (Start, Stop with its steps, Status) leaves its result there, and the
\* command goes on from that result.
Pending == Ret("none", "none", 0, DefaultStatus)

\* the configurations start_recording is called with: one with a video source
\* and one without
CommandConfigs == {Cfg(TRUE, FALSE, FALSE, FALSE), Cfg(FALSE, FALSE, TRUE, FALSE)}

\* one step of a command: RecordingState and the hand-over of the manager call
CommandStep(rs, r) ==
    /\ recording_state' = rs
    /\ ret' = r
    /\ UNCHANGED <<platform, pure, ext, encoder_input, instance, status, stop_signal,
                   compositor_running, config, h, running, wpc, rxTaken, wire, cmode,
                   q, sent, frames, attempts, mpc, pendingErr>>
    /\ UNCHANGED workerLocals

\* recording.rs:392-421 start_recording up to manager.start(config)
StartRecording(cfg) ==
    /\ recording_state.pc = "idle"
    /\ IF recording_state.status.is_recording
       THEN CommandStep([recording_state EXCEPT !.res = "AlreadyRecording"], ret)
       ELSE IF ~cfg.capture_screen /\ ~cfg.capture_webcam
       THEN CommandStep([recording_state EXCEPT !.res = "NoVideoSource"], ret)
       ELSE CommandStep([recording_state EXCEPT !.config = <<cfg>>,
                                                !.stop_signal = FALSE,
                                                !.pc = "start", !.res = "none"],
                        Pending)

\* recording.rs:419-422 `manager.start(config)`
StartRecordingCall ==
    /\ recording_state.pc = "start"
    /\ ret = Pending
    /\ \E env \in Envs(recording_state.config[1]) :
          Start(recording_state.config[1], env)

\* recording.rs:424-448 `match result`: Ok goes on to manager.status(), Err
\* clears the stored config and is returned
StartRecordingResult ==
    /\ recording_state.pc = "start"
    /\ ret.op = "start"
    /\ IF ret.res = "Ok"
       THEN CommandStep([recording_state EXCEPT !.pc = "refresh"], Pending)
       ELSE CommandStep([recording_state EXCEPT !.config = <<>>, !.res = ret.res,
                                                !.pc = "idle"], ret)

\* recording.rs:427-430 and 494-496 `manager.status()`
StatusCall ==
    /\ recording_state.pc \in {"refresh", "live"}
    /\ ret = Pending
    /\ Status

\* recording.rs:432-436 `*status = manager_status; Ok(())`
StartRecordingDone ==
    /\ recording_state.pc = "refresh"
    /\ ret.op = "status"
    /\ mpc = "idle"
    /\ CommandStep([recording_state EXCEPT !.status = ret.snap, !.res = "Ok",
                                           !.pc = "idle"], ret)

\* recording.rs:452-466 stop_recording up to manager.stop()
StopRecording ==
    /\ recording_state.pc = "idle"
    /\ IF ~recording_state.status.is_recording
       THEN CommandStep([recording_state EXCEPT !.res = "NotRecording"], ret)
       ELSE CommandStep([recording_state EXCEPT !.stop_signal = TRUE,
                                                !.pc = "stop", !.res = "none"],
                        Pending)

\* recording.rs:469-472 `manager.stop()`
StopRecordingCall ==
    /\ recording_state.pc = "stop"
    /\ ret = Pending
    /\ Stop

\* recording.rs:474-488: the cached flag and the config are cleared whatever
\* manager.stop() returned, and its result is the result of the command
StopRecordingDone ==
    /\ recording_state.pc = "stop"
    /\ ret.op = "stop"
    /\ mpc = "idle"
    /\ CommandStep([recording_state EXCEPT !.status.is_recording = FALSE,
                                           !.config = <<>>, !.res = ret.res,
                                           !.pc = "idle"], ret)

\* recording.rs:492-494 get_recording_status_live up to manager.status()
GetRecordingStatusLive ==
    /\ recording_state.pc = "idle"
    /\ CommandStep([recording_state EXCEPT !.pc = "live", !.res = "none"], Pending)

\* recording.rs:495-497: the manager's status is returned; RecordingState is
\* not written
GetRecordingStatusLiveDone ==
    /\ recording_state.pc = "live"
    /\ ret.op = "status"
    /\ mpc = "idle"
    /\ CommandStep([recording_state EXCEPT !.res = "Ok", !.pc = "idle"], ret)

\* The encoder of a running session fails and reports it on the error channel
\* (try_send on the bounded(1) channel of manager.rs:264).  The sending side,
\* Encoder::set_error_sender and its use in the worker, is not part of the
\* sources; it is modelled from the specification: "Encoder failure
\* mid-recording is delivered on a single-slot error channel that the manager
\* polls on each status() call".
EncoderReportsFailure(n) ==
    /\ EncoderStep(n, "run", "failed")
    /\ q' = [q EXCEPT !["error"][n] =
                TrySend(@, ErrorCapacity, RxAlive("error", n), "EncoderFailed").q]

InitCommands ==
    /\ platform \in Platforms
    /\ pure = NoCall
    /\ ext = NewExternalRecorder
    /\ encoder_input = NoVideo
    /\ instance = NoInstance
    /\ recording_state = NewRecordingState
    /\ frames = 0
    /\ InitManager

NextCommands ==
    \/ \E cfg \in CommandConfigs : StartRecording(cfg)
    \/ StartRecordingCall
    \/ StartRecordingResult
    \/ StatusCall
    \/ StartRecordingDone
    \/ StopRecording
    \/ StopRecordingCall
    \/ \E k \in CompKinds : StopComponent(k)
    \/ StopFinish
    \/ StopRecordingDone
    \/ GetRecordingStatusLive
    \/ GetRecordingStatusLiveDone
    \/ \E n \in Ids : EncoderOpen(n)
    \/ \E n \in Ids : EncoderReportsFailure(n)

SpecCommands == InitCommands /\ [][NextCommands]_vars

\* ------------------------------------------------------------ start / stop claims
\* a start() call with any configuration and any answer of the system
StartStep == \E cfg \in Configs : \E env \in Envs(cfg) : Start(cfg, env)

\* the errors start() returns when a component cannot be created or started
ComponentErrors == {"ScreenCapture", "Audio", "AlreadyRunning"}

\* C1: a start() call made while is_recording is true returns the
\* already-recording error and changes nothing the manager owns, so the
\* session that is recording stays the only one
C1_StartWhileRecordingRejected ==
    [][(status.is_recording /\ StartStep)
         => (ret'.op = "start" /\ ret'.res = "AlreadyRecording"
             /\ UNCHANGED mgrVars /\ UNCHANGED mpc)]_vars

\* a start() has been rejected while a session records
C1_Witness ==
    /\ ret.op = "start"
    /\ ret.res = "AlreadyRecording"
    /\ status.is_recording
    /\ \E n \in Ids : h["encoder"] = n /\ status.output_path = n

\* C2: the stop() that ends a session returns the session's output path; a
\* stop() call while nothing records (after that stop, or on a manager that
\* never started) returns the not-recording error and changes no state
C2_StopOnceThenError ==
    [][/\ (Stop /\ ~status.is_recording)
            => (ret'.op = "stop" /\ ret'.res = "NotRecording"
                /\ UNCHANGED mgrVars /\ UNCHANGED mpc)
       /\ (StopFinish /\ pendingErr = "none")
            => (ret'.op = "stop" /\ ret'.res = "Ok"
                /\ ret'.path # 0 /\ ret'.path = status.output_path
                /\ ~status'.is_recording)]_vars

\* a further stop() after the stop() that ended session 1 has been refused
C2_Witness ==
    /\ ret.op = "stop"
    /\ ret.res = "NotRecording"
    /\ Sessions = 1
    /\ status.output_path = 1
    /\ ~status.is_recording

\* C3: on an idle manager, start() with neither screen nor webcam returns the
\* no-video-source error, is_recording stays false and nothing else changes
C3_NoVideoSourceRejected ==
    [][\A cfg \in Configs : \A env \in Envs(cfg) :
         (~status.is_recording /\ ~cfg.capture_screen /\ ~cfg.capture_webcam
          /\ Start(cfg, env))
           => (ret'.op = "start" /\ ret'.res = "NoVideoSource"
               /\ ~status'.is_recording
               /\ UNCHANGED mgrVars /\ UNCHANGED mpc)]_vars

\* start() without a video source has been refused on an idle manager
C3_Witness ==
    /\ ret.op = "start"
    /\ ret.res = "NoVideoSource"
    /\ ~status.is_recording
    /\ attempts = 0

\* C4: when start() returns a component error, the error is the result of
\* the call itself and is_recording is false; the calls that follow see an
\* idle manager: start() is not refused as already recording and stop()
\* reports that nothing records
C4_StartErrorLeavesIdle ==
    [][/\ StartStep /\ ret'.res \in ComponentErrors
            => (ret'.op = "start" /\ ~status'.is_recording /\ mpc' = "idle")
       /\ (ret.op = "start" /\ ret.res \in ComponentErrors)
            => /\ ~status.is_recording
               /\ StartStep => ret'.res # "AlreadyRecording"
               /\ Stop => ret'.res = "NotRecording"]_vars

\* after a start() that failed, the next start() succeeded
C4_Witness ==
    /\ ret.op = "start"
    /\ ret.res = "Ok"
    /\ attempts = 2
    /\ Sessions = 1
    /\ status.output_path = 2

\* C5 (as claimed): after start() returned a component error every handle of
\* the manager is None and no worker of the failed attempt is running
C5_FailedStartClearsHandles ==
    (ret.op = "start" /\ ret.res \in ComponentErrors)
        => /\ h = NoneH
           /\ \A k \in WorkerKinds : ~WorkerLive(k, attempts)

\* the encoder worker of the session that records has ended with an error
EncoderFailedNow ==
    /\ status.is_recording
    /\ h["encoder"] # 0
    /\ wpc["encoder"][h["encoder"]] = "failed"

\* C6 (as claimed): a status() call made after the encoder worker of the
\* recording session failed takes the failure path: it finds the message on
\* the error channel and goes on to stop the session and report the error
C6_EncoderFailureReported ==
    [][(Status /\ EncoderFailedNow) => pendingErr' # "none"]_vars

\* the components of the manager that stop() signals
Signalled(k) == h[HandleOf(k)] # 0 => ~running[k][h[HandleOf(k)]]

\* C7: inside stop() the stop flag is set before any component is stopped,
\* every capture source is stopped before the mixer and the encoder, and
\* is_recording, the handles and the result change only after every stop
\* signal has been issued
C7_StopOrder ==
    [][/\ \A k \in CompKinds :
            StopComponent(k) => (stop_signal /\ ~compositor_running)
       /\ (StopComponent("mixer") \/ StopComponent("encoder"))
            => \A k \in CaptureKinds : Signalled(k)
       /\ (mpc # "idle" /\ mpc' # "idle")
            => (status.is_recording /\ status'.is_recording
                /\ h' = h /\ config' = config /\ ret' = ret)
       /\ StopFinish
            => (stop_signal /\ ~compositor_running
                /\ \A k \in CompKinds : Signalled(k))]_vars

\* stop() has gone through a session with a screen source, a microphone,
\* a mixer and an encoder and has returned its path
C7_Witness ==
    /\ ret.op = "stop"
    /\ ret.res = "Ok"
    /\ \E n \in Ids : /\ ret.path = n
                      /\ wpc["screen"][n] # "none"
                      /\ wpc["mic"][n] # "none"
                      /\ wpc["mixer"][n] # "none"
                      /\ wpc["encoder"][n] # "none"

\* C8 (as claimed): when stop() has returned the path, the encoder worker of
\* that session has flushed and written the trailer
C8_StopReturnsAfterTrailer ==
    (ret.op = "stop" /\ ret.res = "Ok") => wpc["encoder"][ret.path] = "done"

\* no worker thread of any session is alive
AllExited == \A k \in WorkerKinds : \A n \in Ids : ~WorkerLive(k, n)

\* C9: once stop() has returned, and unless a later start() begins a new
\* recording, every worker of the stopped session (each capture worker, the
\* compositor, the mixer and the encoder) eventually reads its flag and
\* exits; no worker runs forever
C9_WorkersExitAfterStop ==
    (ret.op = "stop" /\ ret.res = "Ok") ~> (AllExited \/ status.is_recording)

\* stop() has returned, no start() followed, and every worker of a session
\* with a capture thread, a compositor, a mixer and an encoder has exited
C9_Witness ==
    /\ ret.op = "stop"
    /\ ret.res = "Ok"
    /\ attempts = ret.path
    /\ AllExited
    /\ \E k \in CaptureKinds : wpc[k][ret.path] = "done"
    /\ wpc["compositor"][ret.path] = "done"
    /\ wpc["mixer"][ret.path] = "done"
    /\ wpc["encoder"][ret.path] = "done"

\* C10: no queue ever holds more than its capacity (so all queues together
\* hold at most the sum of the capacities); a try_send that finds its queue
\* full leaves the queue as it was, a try_send that finds room appends
\* exactly the item sent; a sender's step never waits for room
C10_QueuesBounded ==
    [][/\ \A k \in QueueKinds : \A n \in Ids : Len(q'[k][n]) <= Capacity(k)
       /\ \A k \in CaptureKinds :
            CaptureFrame(k, 1) =>
                q'[k][1] = IF Len(q[k][1]) < Capacity(k)
                           THEN Append(q[k][1], sent'[k][1]) ELSE q[k][1]
       /\ (\E recent \in BOOLEAN : CompositorTick(1, recent)) =>
            \/ q'["composite"][1] = q["composite"][1]
            \/ /\ Len(q["composite"][1]) < Capacity("composite")
               /\ q'["composite"][1] =
                    Append(q["composite"][1], Last(q'["composite"][1]))
               /\ cfc'[1] = cfc[1] + 1
       /\ MixerMix(1) =>
            q'["mixed"][1] = IF Len(q["mixed"][1]) < Capacity("mixed")
                             THEN Append(q["mixed"][1], mbuf[1].ts)
                             ELSE q["mixed"][1]]_vars

\* a queue is at capacity and the frame sent last is not in it: its
\* try_send was refused
C10_Witness ==
    \E k \in CaptureKinds :
        /\ Len(q[k][1]) = Capacity(k)
        /\ sent[k][1] > Last(q[k][1])

\* ------------------------------------------------------------ blocking
\* the input queues of the mixer of session n hold something
MixerHasInput(n) ==
    \/ wire["mm"][n] # 0 /\ q["mic"][wire["mm"][n]] # <<>>
    \/ wire["ms"][n] # 0 /\ q["sys"][wire["ms"][n]] # <<>>

\* C11: no worker is blocked by another.  In every state a capture source
\* with a frame to send, the compositor, the mixer with a block to send or
\* chunks to collect, the encoder with frames to take, every worker whose flag
\* is cleared, and stop() itself can take their next step at once, whatever
\* the queues hold and whatever the other workers do
C11_NoWorkerBlocked ==
    /\ \A k \in CaptureKinds :
          (Delivers(k, 1) /\ frames > 0) => ENABLED CaptureFrame(k, 1)
    /\ \A k \in CaptureKinds :
          (wpc[k][1] = "run" /\ ~IsSck(k) /\ ~running[k][1]) => ENABLED CaptureExit(k, 1)
    /\ wpc["compositor"][1] = "run" => ENABLED CompositorThread(1)
    /\ wpc["mixer"][1] = "mix" => ENABLED MixerMix(1)
    /\ (wpc["mixer"][1] = "run" /\ (MixerHasInput(1) \/ ~running["mixer"][1]))
          => ENABLED MixerThread(1)
    /\ wpc["encoder"][1] = "init" => ENABLED EncoderOpen(1)
    /\ (/\ wpc["encoder"][1] = "run"
        /\ \/ ~running["encoder"][1]
           \/ q["composite"][1] # <<>>
           \/ q["mixed"][1] # <<>>)
          => ENABLED EncoderThread(1)
    /\ mpc # "idle" => ENABLED StopThread

\* a capture source has a frame to send into a full queue whose consumer is
\* alive, while stop() is on its way
C11_Witness ==
    /\ mpc # "idle"
    /\ \E k \in CaptureKinds :
          /\ Delivers(k, 1)
          /\ frames > 0
          /\ Len(q[k][1]) = Capacity(k)
          /\ RxAlive(k, 1)

\* ------------------------------------------------------------ capacities
\* the capacities the queues are said to have
StatedCapacity(k) == IF k \in {"screen", "webcam", "composite"} THEN 120 ELSE 30

\* C12: on every platform variant a send into a queue whose receiver is alive
\* is refused only when the queue holds its stated capacity: 120 frames for
\* the video capture and the composite queues, 30 chunks for the audio
\* capture and the mixed queues
C12_QueueCapacities ==
    [][/\ \A k \in CaptureKinds :
             (CaptureFrame(k, 1) /\ RxAlive(k, 1) /\ q'[k][1] = q[k][1])
                => Len(q[k][1]) = StatedCapacity(k)
       /\ (MixerMix(1) /\ RxAlive("mixed", 1) /\ q'["mixed"][1] = q["mixed"][1])
             => Len(q["mixed"][1]) = StatedCapacity("mixed")
       /\ Capacity("composite") = StatedCapacity("composite")]_vars

\* ------------------------------------------------------------ drops
\* the counter a stage keeps of the items it dropped: the compositor has
\* skipped_frames (manager.rs:467); the capture sources and the mixer discard
\* the result of try_send (`let _ =`, or an occasional log line) and keep none
DropCounter(k) == IF k = "composite" THEN skipped_frames[1] ELSE 0

\* try_send on queue k of session 1 returns Full in this state
ReturnsFull(k) == RxAlive(k, 1) /\ Len(q[k][1]) >= Capacity(k)

\* 1 when try_send on queue k returns Full in this state, else 0
FullNow(k) == IF ReturnsFull(k) THEN 1 ELSE 0

\* C13: every drop is counted and nothing else is: each step of a dropping
\* stage raises that stage's drop counter by one exactly when its try_send
\* returned Full, and a drop changes neither status.error nor is_recording
C13_DropsCounted ==
    [][/\ \A k \in CaptureKinds :
             CaptureFrame(k, 1) =>
                /\ DropCounter(k)' = DropCounter(k) + FullNow(k)
                /\ status'.error = status.error
                /\ status'.is_recording = status.is_recording
       /\ MixerMix(1) =>
             /\ DropCounter("mixed")' = DropCounter("mixed") + FullNow("mixed")
             /\ status'.error = status.error
             /\ status'.is_recording = status.is_recording
       /\ \A recent \in BOOLEAN :
             CompositorTick(1, recent) =>
                /\ DropCounter("composite")' = DropCounter("composite") + FullNow("composite")
                /\ status'.error = status.error
                /\ status'.is_recording = status.is_recording]_vars

\* ------------------------------------------------------------ status writers
\* C14: RecordingStatus is changed only by start(), stop() and status(): no
\* step of a capture, compositor, mixer or encoder worker changes any of its
\* fields
C14_StatusWrittenByManagerOnly == [][WorkerNext => status' = status]_vars

\* ------------------------------------------------------------ system audio
\* C15: system audio never fails a session.  When start() is called on an idle
\* manager with system audio requested, and the source cannot be created, is
\* not available, or its start() returns an error, then start() succeeds
\* whenever it would succeed without system audio; no system-audio worker
\* runs, and a requested microphone is running and wired to the mixer
C15_SystemAudioNeverFails ==
    [][\A cfg \in AllConfigs : \A env \in Envs(cfg) :
          (/\ Start(cfg, env)
           /\ ~status.is_recording
           /\ cfg.capture_screen \/ cfg.capture_webcam
           /\ cfg.capture_system_audio
           /\ ~env.sysAvail \/ ~env.sysStart
           /\ StartBody([cfg EXCEPT !.capture_system_audio = FALSE], env,
                        attempts + 1).err = "none")
          => /\ ret'.res = "Ok"
             /\ status'.is_recording
             /\ wpc'["sys"][attempts'] = "none"
             /\ wpc'["mixer"][attempts'] = "run"
             /\ cfg.capture_mic => /\ wpc'["mic"][attempts'] = "run"
                                   /\ wire'["mm"][attempts'] = attempts']_vars

\* start() has succeeded with microphone and system audio requested although
\* the system-audio source failed to start: only the microphone runs
C15_Witness ==
    /\ ret.op = "start"
    /\ ret.res = "Ok"
    /\ config # <<>>
    /\ config[1].capture_system_audio
    /\ config[1].capture_mic
    /\ h["system_audio_capture"] = attempts
    /\ wpc["sys"][attempts] = "none"
    /\ wpc["mic"][attempts] = "run"

\* ------------------------------------------------------------ screen permission
\* the screen source of start() call n could not be opened: its capture
\* thread failed to open the display, or its ScreenCaptureKit stream failed
\* to start
ScreenOpenFailed(n) ==
    \/ wpc["screen"][n] = "failed"
    \/ IsSck("screen") /\ running["screen"][n] /\ wpc["screen"][n] = "none"

\* C16: on every screen-capture variant, a screen that cannot be opened makes
\* start() itself fail: the encoder worker of that call was never started and
\* no recording is running on that screen source
C16_ScreenFailureFailsStart ==
    \A n \in Ids :
        ScreenOpenFailed(n) =>
            /\ wpc["encoder"][n] = "none"
            /\ ~(status.is_recording /\ h["screen_capture"] = n)

\* ------------------------------------------------------------ ordering
\* items are numbered by their timestamps: non-decreasing from head to tail
Sorted(seq) == \A i \in 1..(Len(seq) - 1) : seq[i] <= seq[i + 1]

\* what a queue may become in one step: items leave at the head, at most one
\* item joins at the tail
FifoStep(old, new) ==
    \E d \in 0..Len(old) :
        LET rest == SubSeq(old, d + 1, Len(old))
        IN \/ new = rest
           \/ Len(new) = Len(rest) + 1 /\ SubSeq(new, 1, Len(rest)) = rest

\* C17: every queue is first-in first-out, and along every stream the
\* timestamps never decrease: in each capture queue, in the composite frames
\* in the order they enter the compositor to encoder queue, and in the mixed
\* chunks in the order they enter the mixer to encoder queue
C17_FifoAndTimestamps ==
    /\ [](\A k \in QueueKinds \ {"error"} : \A n \in Ids : Sorted(q[k][n]))
    /\ [][\A k \in QueueKinds \ {"error"} : \A n \in Ids :
             FifoStep(q[k][n], q'[k][n])]_vars

\* the mixed queue holds chunks of two timestamps, the earlier one twice
C17_Witness ==
    /\ Len(q["mixed"][1]) >= 3
    /\ q["mixed"][1][1] = q["mixed"][1][2]
    /\ q["mixed"][1][1] < Last(q["mixed"][1])

\* ------------------------------------------------------------ composite tag
\* C18: composite tags the frame BGRA exactly when the webcam overlay is
\* disabled and the screen frame has the output width and height; in every
\* other case, and for a webcam-only frame, the frame is tagged RGBA and has
\* the output width and height
C18_CompositeTag ==
    /\ (pure.fn = "composite" /\ pure.done) =>
          /\ pure.out.is_bgra <=> /\ ~pure.in.include_webcam
                                  /\ pure.in.width = pure.in.output_width
                                  /\ pure.in.height = pure.in.output_height
          /\ ~pure.out.is_bgra => /\ pure.out.width = pure.in.output_width
                                  /\ pure.out.height = pure.in.output_height
    /\ (pure.fn = "composite_webcam_only" /\ pure.done) =>
          /\ ~pure.out.is_bgra
          /\ pure.out.width = pure.in.output_width
          /\ pure.out.height = pure.in.output_height

\* composite has returned for a frame without overlay whose width equals the
\* output width while its height does not
C18_Witness ==
    /\ pure.fn = "composite"
    /\ pure.done
    /\ ~pure.in.include_webcam
    /\ pure.in.width = pure.in.output_width
    /\ pure.in.height # pure.in.output_height

\* ------------------------------------------------------------ to_rgba
\* the four output bytes of pixel (x, y)
OutPixel(x, y) ==
    LET first == (y * pure.in.width + x) * 4
    IN [k \in 1..4 |-> pure.out[first + k]]

\* to_rgba returns exactly width * height * 4 bytes
RgbaLength == Len(pure.out) = pure.in.width * pure.in.height * 4

\* output pixel (x, y) is built only from the four input bytes at
\* y * stride + x * 4, and no padding byte appears in the output
RgbaFromPixel ==
    /\ \A x \in 0..(pure.in.width - 1) : \A y \in 0..(pure.in.height - 1) :
          LET offset == y * pure.in.stride + x * 4
          IN {OutPixel(x, y)[k].off : k \in 1..4} = offset..(offset + 3)
    /\ \A i \in 1..Len(pure.out) : pure.out[i].ch # "pad"

\* the channels of every output pixel are in the order R, G, B, A
RgbaOrder ==
    \A x \in 0..(pure.in.width - 1) : \A y \in 0..(pure.in.height - 1) :
        [k \in 1..4 |-> OutPixel(x, y)[k].ch] = <<"R", "G", "B", "A">>

\* C19: for every ScreenFrame with stride >= width * 4 and data of at least
\* height * stride bytes, to_rgba returns exactly width * height * 4 bytes,
\* output pixel (x, y) is built only from the four input bytes at offset
\* y * stride + x * 4 with the channels reordered to R, G, B, A, and no byte
\* of the padding of a row appears in the output
C19_ToRgba ==
    (pure.fn = "to_rgba" /\ pure.done) => (RgbaLength /\ RgbaFromPixel /\ RgbaOrder)

\* the part of C19 that does not depend on the channel order
C19_StrideOnly ==
    (pure.fn = "to_rgba" /\ pure.done) => (RgbaLength /\ RgbaFromPixel)

\* ------------------------------------------------------------ PiP rectangle
\* the rectangle the specification states, in the integers
StatedPip(W, H, pct, pos, p) ==
    LET pip_w == (W * pct) \div 100
        pip_h == (pip_w * 3) \div 4
    IN [pip_width |-> pip_w, pip_height |-> pip_h,
        pip_x |-> IF pos \in {"TopLeft", "BottomLeft"} THEN p ELSE W - pip_w - p,
        pip_y |-> IF pos \in {"TopLeft", "TopRight"} THEN p ELSE H - pip_h - p]

\* C20: the PiP rectangle is pip_w = output_width * size_pct / 100 and
\* pip_h = pip_w * 3 / 4 in integer arithmetic, placed with padding p at
\* TopLeft (p, p), TopRight (W-pip_w-p, p), BottomLeft (p, H-pip_h-p),
\* BottomRight (W-pip_w-p, H-pip_h-p); for 1920x1080, 25% and padding 20 it
\* is at (1420, 20) for TopRight and at (20, 700) for BottomLeft
C20_PipRectangle ==
    (pure.fn = "new" /\ pure.done) =>
        /\ pure.out = StatedPip(pure.in.output_width, pure.in.output_height,
                                pure.in.pip_size_percent, pure.in.pip_position,
                                pure.in.pip_padding)
        /\ ( /\ pure.in.output_width = 1920
             /\ pure.in.output_height = 1080
             /\ pure.in.pip_size_percent = 25
             /\ pure.in.pip_padding = 20 ) =>
                /\ pure.in.pip_position = "TopRight" =>
                      <<pure.out.pip_x, pure.out.pip_y>> = <<1420, 20>>
                /\ pure.in.pip_position = "BottomLeft" =>
                      <<pure.out.pip_x, pure.out.pip_y>> = <<20, 700>>

\* the compositor was created for 1920x1080 with a 25% PiP at the bottom left
C20_Witness ==
    /\ pure.fn = "new"
    /\ pure.done
    /\ pure.in.output_width = 1920
    /\ pure.in.output_height = 1080
    /\ pure.in.pip_size_percent = 25
    /\ pure.in.pip_position = "BottomLeft"
    /\ pure.out.pip_height = 360

\* ------------------------------------------------------------ convert_channels
\* the samples of input frame i, and what the output holds for it
InFrame(i) ==
    [c \in 1..pure.in.from_channels |-> pure.in.samples[i * pure.in.from_channels + c]]

OutFrame(i) ==
    [c \in 1..pure.in.to_channels |-> pure.out[i * pure.in.to_channels + c]]

\* C21: convert_channels on n input frames returns exactly n * to_channels
\* samples: mono to stereo emits every input sample twice in a row, stereo to
\* mono one sample per frame derived from the frame's left and right samples,
\* any other conversion copies the first min(N, M) channels of each frame and
\* fills each extra channel with the frame's first channel; with equal channel
\* counts the input is returned unchanged
C21_ConvertChannels ==
    (pure.fn = "convert_channels" /\ pure.done) =>
        LET from == pure.in.from_channels
            to == pure.in.to_channels
            n == Len(pure.in.samples) \div from
            whole == Len(pure.in.samples) = n * from
        IN /\ whole => Len(pure.out) = n * to
           /\ from = to => pure.out = pure.in.samples
           /\ from # to =>
                /\ Len(pure.out) = n * to
                /\ \A i \in 0..(n - 1) :
                      CASE from = 1 /\ to = 2 ->
                              OutFrame(i) = <<InFrame(i)[1], InFrame(i)[1]>>
                        [] from = 2 /\ to = 1 ->
                              OutFrame(i) = <<InFrame(i)[1] \o InFrame(i)[2]>>
                        [] OTHER ->
                              \A c \in 1..to :
                                  OutFrame(i)[c] = IF c <= from THEN InFrame(i)[c]
                                                   ELSE InFrame(i)[1]

\* two stereo frames were converted to three channels
C21_Witness ==
    /\ pure.fn = "convert_channels"
    /\ pure.done
    /\ pure.in.from_channels = 2
    /\ pure.in.to_channels = 3
    /\ Len(pure.in.samples) = 4
    /\ Len(pure.out) = 6

\* ------------------------------------------------------------ receive_frame
\* the data length equals width * height * 4 (data lengths are below 2^16)
LengthMatches(len, width, height) ==
    /\ width <= 128
    /\ height <= 128
    /\ len = width * height * 4

\* a session is recording, the frame has the configured size and its data
\* the length of that size
FrameAccepted(width, height, len) ==
    /\ ext.is_recording
    /\ ext.config # <<>>
    /\ width = ext.config[1].output_width
    /\ height = ext.config[1].output_height
    /\ LengthMatches(len, width, height)

ReceiveFrameChecks(width, height, len) ==
    LET meets == FrameAccepted(width, height, len)
        same == /\ ext'.queue = ext.queue
                /\ ext'.frame_count = ext.frame_count
    IN /\ ext'.queue # ext.queue => meets
       /\ ~meets => (ext'.res = "Err" /\ same)
       /\ (meets /\ Len(ext.queue) = ExternalCapacity) => (ext'.res = "Ok" /\ same)

\* C22: receive_frame enqueues a frame only if a session is recording, the
\* frame's width and height equal the configured output dimensions and the data
\* length equals width * height * 4; in every other case it returns an error
\* and changes neither the queue nor the frame count; a frame that meets the
\* conditions but finds the queue full is dropped without error, not counted
C22_ReceiveFrameValidates ==
    [][\A width \in ExtWidths : \A height \in ExtHeights : \A len \in ExtLengths :
         \A build \in Builds :
            ReceiveFrame(width, height, len, build)
               => ReceiveFrameChecks(width, height, len)]_vars

\* the same for the frames whose width * height * 4 stays inside u32
C22_WithoutOverflow ==
    [][\A width \in ExtWidths : \A height \in ExtHeights : \A len \in ExtLengths :
         \A build \in Builds :
            (ReceiveFrame(width, height, len, build)
                /\ ~ExpectedSize(width, height).overflow)
               => ReceiveFrameChecks(width, height, len)]_vars

\* a full queue in a recording session, the last frame was dropped without error
C22_FullQueue ==
    /\ ext.is_recording
    /\ Len(ext.queue) = ExternalCapacity
    /\ ext.frame_count = ExternalCapacity
    /\ ext.pushed = 1
    /\ ext.res = "Ok"

\* ------------------------------------------------------------ compositor tick
\* the screen queue and the composite queue of the loaded session's compositor
ScreenQueue == IF wire["cs"][1] = 0 THEN <<>> ELSE q["screen"][wire["cs"][1]]

CompositeQueue == q["composite"][1]

ScreenTick(recent) == CompositorTick(1, recent) /\ cmode[1] = "screen"

\* C23: on each compositor tick in screen mode all frames pending in the screen
\* queue are taken, only the most recently sent one is kept for compositing,
\* skipped_frames grows by one for each of the others, and at most one composite
\* frame is emitted per tick
C23_DrainKeepsLatest ==
    [][\A recent \in BOOLEAN :
          ScreenTick(recent) =>
             /\ ScreenQueue' = <<>>
             /\ \/ CompositeQueue' = CompositeQueue
                \/ /\ ScreenQueue # <<>>
                   /\ CompositeQueue' = Append(CompositeQueue, Last(ScreenQueue))
             /\ IF ScreenQueue = <<>>
                THEN skipped_frames'[1] = skipped_frames[1]
                ELSE skipped_frames'[1] - skipped_frames[1]
                        \in {Len(ScreenQueue) - 1, Len(ScreenQueue)}]_vars

\* a tick took several screen frames at once and emitted the last one
C23_Witness ==
    /\ cmode[1] = "screen"
    /\ wpc["compositor"][1] = "run"
    /\ sent["screen"][1] > 0
    /\ ScreenQueue = <<>>
    /\ CompositeQueue # <<>>
    /\ Last(CompositeQueue) = sent["screen"][1]
    /\ skipped_frames[1] = Capacity("screen") - 2
    /\ skipped_frames[1] >= 3

\* ------------------------------------------------------------ backpressure
\* the downstream queue is more than 80% full: more than 96 of 120
AboveEighty == Len(CompositeQueue) > 96

\* the frame is composited and one try_send is attempted
SendAttempted(frame) ==
    IF Len(CompositeQueue) < 120 /\ RxAlive("composite", 1)
    THEN /\ CompositeQueue' = Append(CompositeQueue, frame)
         /\ cfc'[1] = cfc[1] + 1
    ELSE /\ CompositeQueue' = CompositeQueue
         /\ cfc'[1] = cfc[1]

\* the frame is skipped: nothing is sent
FrameSkipped ==
    /\ CompositeQueue' = CompositeQueue
    /\ cfc'[1] = cfc[1]

\* C24: in screen mode the compositor skips the kept frame by the backpressure
\* rule exactly when the downstream queue is more than 80% full (more than 96
\* of 120) and the last successful emit is less than twice the target interval
\* old; in every other case it composites the frame and attempts one try_send,
\* so a frame is still emitted above 80% when the last emit is older
C24_ScreenBackpressure ==
    [][\A recent \in BOOLEAN :
          (ScreenTick(recent) /\ ScreenQueue # <<>>) =>
             IF AboveEighty /\ recent
             THEN /\ FrameSkipped
                  /\ skipped_frames'[1] = skipped_frames[1] + Len(ScreenQueue)
             ELSE SendAttempted(Last(ScreenQueue))]_vars

\* a screen frame was emitted into a queue that was more than 80% full
C24_Witness ==
    /\ cmode[1] = "screen"
    /\ cfc[1] = CompositeCapacity
    /\ Len(CompositeQueue) = CompositeCapacity
    /\ Last(CompositeQueue) >= CompositeCapacity
    /\ status.frame_count = CompositeCapacity

\* the webcam queue of the loaded session's compositor
WebcamQueue == IF wire["cw"][1] = 0 THEN <<>> ELSE q["webcam"][wire["cw"][1]]

WebcamTick(recent) == CompositorTick(1, recent) /\ cmode[1] = "webcam"

\* C25: in webcam-only mode the compositor applies the same second-layer rule
\* as in screen mode: a composite is dropped only if the downstream queue is
\* more than 80% full and the previous emit was recent; above 80% with a
\* previous emit older than twice the target interval the frame is composited
\* and sent
C25_WebcamBackpressure ==
    [][\A recent \in BOOLEAN :
          (WebcamTick(recent) /\ WebcamQueue # <<>>) =>
             IF AboveEighty /\ recent
             THEN FrameSkipped
             ELSE SendAttempted(Last(WebcamQueue))]_vars

\* ------------------------------------------------------------ frame_count
\* composite frames the compositor of the current session has enqueued
Enqueued == IF attempts = 0 THEN 0 ELSE cfc[attempts]

SameSession == attempts' = attempts /\ status.is_recording /\ status'.is_recording

\* C26: within a session status.frame_count never decreases and never exceeds
\* the number of composite frames the compositor has enqueued so far; it is
\* brought up to date on every 30th successful emit, and once the compositor
\* worker has exited it equals the total number of frames enqueued
C26_FrameCount ==
    /\ [](status.is_recording => status.frame_count <= Enqueued)
    /\ []((status.is_recording /\ attempts > 0 /\ wpc["compositor"][attempts] = "done")
             => status.frame_count = Enqueued)
    /\ [][SameSession =>
            /\ status'.frame_count >= status.frame_count
            /\ (Enqueued' # Enqueued /\ Enqueued' % 30 = 0)
                   => status'.frame_count = Enqueued']_vars

\* ------------------------------------------------------------ latest webcam
\* C27: in screen plus webcam mode the compositor keeps the most recent webcam
\* frame it has received and overlays that same frame on every composite until
\* a newer one arrives (it is never cleared); in webcam-only mode each webcam
\* frame kept at a tick is composited or skipped at most once and then cleared,
\* so no webcam frame is emitted twice
C27_LatestWebcam ==
    [][\A recent \in BOOLEAN :
          CompositorTick(1, recent) =>
             IF cmode[1] = "screen"
             THEN /\ latest_webcam'[1] = IF WebcamQueue # <<>> THEN Last(WebcamQueue)
                                         ELSE latest_webcam[1]
                  /\ CompositeQueue' # CompositeQueue => overlay'[1] = latest_webcam'[1]
             ELSE /\ latest_webcam[1] = 0
                  /\ latest_webcam'[1] = 0
                  /\ WebcamQueue' = <<>>
                  /\ CompositeQueue' # CompositeQueue =>
                        /\ WebcamQueue # <<>>
                        /\ CompositeQueue' = Append(CompositeQueue, Last(WebcamQueue))]_vars

\* two composites were emitted with the same webcam frame, and no newer webcam
\* frame has been captured
C27_Witness ==
    /\ cmode[1] = "screen"
    /\ wire["cw"][1] # 0
    /\ cfc[1] = CompositeCapacity + 1
    /\ overlay[1] # 0
    /\ overlay[1] = latest_webcam[1]
    /\ overlay[1] = sent["webcam"][1]
    /\ sent["webcam"][1] = CompositeCapacity + WebcamCapacity - 2

\* the sample a source contributes at 1-based position k of the mixed stream
Contribution(buffer, k) == IF k <= Len(buffer) THEN buffer[k] ELSE Silence

\* the larger of two numbers
Larger(a, b) == IF a > b THEN a ELSE b

\* C28: the mixer produces a block whenever either internal buffer holds at
\* least block_size samples; each block has exactly block_size samples, and
\* position i combines the mic sample at i when the mic buffer still holds one
\* there (else 0) with the system sample likewise, so a lagging source is mixed
\* as zeros instead of stalling the other; the production loop terminates, and
\* after the tick both internal buffers hold fewer than block_size samples
C28_MixerBlocks ==
    (pure.fn = "mix_loop" /\ pure.done) =>
        LET mic == pure.in.mic_buffer
            sys == pure.in.system_buffer
            n == SamplesPerChunk
            out == pure.out
        IN /\ out.finished
           /\ Len(out.mic_buffer) < n
           /\ Len(out.system_buffer) < n
           /\ Len(out.blocks) = Larger(Len(mic) \div n, Len(sys) \div n)
           /\ \A j \in 1..Len(out.blocks) :
                 /\ Len(out.blocks[j]) = n
                 /\ \A i \in 1..n :
                       out.blocks[j][i] =
                           soft_clip_sum(Contribution(mic, (j - 1) * n + i),
                                         Contribution(sys, (j - 1) * n + i))

\* the mic buffer held two blocks and the system buffer less than one: two
\* blocks came out, the second with silence for the system source
C28_Witness ==
    /\ pure.fn = "mix_loop"
    /\ pure.done
    /\ Len(pure.in.mic_buffer) = 2 * SamplesPerChunk + 1
    /\ Len(pure.in.system_buffer) = 1
    /\ Len(pure.out.blocks) = 2
    /\ pure.out.blocks[2][1] = <<<<"mic", SamplesPerChunk + 1>>, Silence>>
    /\ Len(pure.out.mic_buffer) = 1

\* the samples of one source (1 = mic, 2 = system) in the blocks, in the order
\* of the output positions, silence left out
RECURSIVE SourceOf(_, _)
SourceOf(block, side) ==
    IF block = <<>> THEN <<>>
    ELSE (IF Head(block)[side] = Silence THEN <<>> ELSE <<Head(block)[side]>>)
         \o SourceOf(Tail(block), side)

RECURSIVE Mixed(_, _)
Mixed(blocks, side) ==
    IF blocks = <<>> THEN <<>>
    ELSE SourceOf(Head(blocks), side) \o Mixed(Tail(blocks), side)

\* C29: mix_buffers removes from each internal buffer exactly the samples it
\* mixed, min(buffer length, block_size) from the front, and nothing else; over
\* a tick every buffered sample contributes to exactly one position of exactly
\* one block, in FIFO order, never twice and never skipped, and the samples
\* that remain keep their order
C29_MixConsumes ==
    /\ (pure.fn = "mix_buffers" /\ pure.done) =>
          LET n == SamplesPerChunk
              mic == pure.in.mic_buffer
              sys == pure.in.system_buffer
              mic_mixed == Min(Len(mic), n)
              sys_mixed == Min(Len(sys), n)
          IN /\ \A i \in 1..mic_mixed : pure.out.mixed[i][1] = mic[i]
             /\ \A i \in (mic_mixed + 1)..n : pure.out.mixed[i][1] = Silence
             /\ \A i \in 1..sys_mixed : pure.out.mixed[i][2] = sys[i]
             /\ \A i \in (sys_mixed + 1)..n : pure.out.mixed[i][2] = Silence
             /\ pure.out.mic_buffer = SubSeq(mic, mic_mixed + 1, Len(mic))
             /\ pure.out.system_buffer = SubSeq(sys, sys_mixed + 1, Len(sys))
    /\ (pure.fn = "mix_loop" /\ pure.done) =>
          /\ Mixed(pure.out.blocks, 1) \o pure.out.mic_buffer = pure.in.mic_buffer
          /\ Mixed(pure.out.blocks, 2) \o pure.out.system_buffer = pure.in.system_buffer

\* one call took a whole block from the mic buffer and every sample the
\* system buffer had, and left the rest of the mic buffer in order
C29_Witness ==
    /\ pure.fn = "mix_buffers"
    /\ pure.done
    /\ Len(pure.in.mic_buffer) = MaxBuffered
    /\ Len(pure.in.system_buffer) = SamplesPerChunk - 1
    /\ pure.out.mic_buffer = SubSeq(pure.in.mic_buffer, SamplesPerChunk + 1, MaxBuffered)
    /\ pure.out.mic_buffer # <<>>
    /\ pure.out.system_buffer = <<>>

\* the format tag of a composite frame
Tag(composite_frame) == IF composite_frame.is_bgra THEN "BGRA" ELSE "RGBA"

\* C30: for every frame the encoder takes from the video queue, the pixel
\* converter it runs matches the frame's format tag: an RGBA-tagged frame is
\* converted from RGBA and a BGRA-tagged frame from BGRA; no BGRA-tagged frame
\* is converted as if it were RGBA
C30_ConverterMatchesTag ==
    \A i \in 1..Len(encoder_input.scaled) : encoder_input.scaled[i].source = Tag(encoder_input.scaled[i].frame)

\* holds: every frame taken is converted from RGBA, whatever its tag
C30_AlwaysRgba ==
    \A i \in 1..Len(encoder_input.scaled) : encoder_input.scaled[i].source = "RGBA"

\* ------------------------------------------------------------ encoder worker claims
\* video frames handed to the video encoder before the i-th frame taken
SubmittedBefore(i) == Cardinality({j \in 1..(i - 1) : encoder_input.scaled[j].submitted})

\* per-channel samples in the audio frames submitted before the i-th
RECURSIVE SamplesBefore(_)
SamplesBefore(i) ==
    IF i <= 1 THEN 0 ELSE SamplesBefore(i - 1) + encoder_input.audio_frames[i - 1].samples

\* C31: per stream, the PTS the encoder assigns equals the count of units
\* submitted before it: the k-th video frame sent to the video encoder (k from
\* 0) has pts k, without gap or repeat even when a conversion or an encode call
\* fails, and each audio frame has pts equal to the per-channel samples of all
\* audio frames submitted before it, so PTS is strictly increasing in both
\* streams
C31_PtsCounts ==
    /\ \A i \in 1..Len(encoder_input.scaled) :
          encoder_input.scaled[i].submitted =>
             encoder_input.scaled[i].pts = SubmittedBefore(i)
    /\ \A i \in 1..Len(encoder_input.audio_frames) :
          /\ encoder_input.audio_frames[i].pts = SamplesBefore(i)
          /\ i > 1 => encoder_input.audio_frames[i].pts > encoder_input.audio_frames[i - 1].pts

\* the encoder refused the first video frame and the second still got pts 1;
\* three audio frames were cut from the chunks
C31_Witness ==
    /\ Len(encoder_input.scaled) = 2
    /\ encoder_input.scaled[1].submitted
    /\ ~encoder_input.scaled[1].accepted
    /\ encoder_input.scaled[2].submitted
    /\ encoder_input.scaled[2].pts = 1
    /\ Len(encoder_input.audio_frames) = 3
    /\ encoder_input.audio_frames[3].pts = 2 * FrameSize

\* the worker has left its loop and finalised (or failed to finalise) the output
EncoderFinished == encoder_input.pc \in {"done", "failed"}

\* both producers have dropped their senders and nothing is left to take
ClosedAndEmpty ==
    /\ encoder_input.senders = {}
    /\ encoder_input.queue = <<>>
    /\ encoder_input.audio_queue = <<>>

\* holds: once stop is signalled the worker finishes
C32_ExitsOnStop == (~encoder_input.running) ~> EncoderFinished

\* C32: the encoder worker leaves its consume loop when stop is signalled or
\* when both upstream queues are closed by their producers and empty; after
\* all producers have dropped their endpoints the encoder eventually finishes
\* and writes the trailer even if stop is never signalled to it
C32_ExitsWhenClosed ==
    /\ (~encoder_input.running) ~> EncoderFinished
    /\ ClosedAndEmpty ~> EncoderFinished

\* what the worker did with the output after its loop
Out == encoder_input.out

\* positions of the events of a kind for a stream
Events(ev, stream) == {i \in 1..Len(Out) : Out[i].ev = ev /\ Out[i].stream = stream}

\* end-of-stream was sent once to the encoder of the stream, and every packet
\* it returned was written after it
Flushed(stream) ==
    /\ Cardinality(Events("eof", stream)) = 1
    /\ \A e \in Events("eof", stream) :
          /\ Cardinality(Events("packet", stream)) = Out[e].returned
          /\ \A k \in Events("packet", stream) : e < k

TakenVideo == encoder_input.sent - Len(encoder_input.queue)

TakenAudio == encoder_input.audio_sent - Len(encoder_input.audio_queue)

\* C36: no accepted data is lost at stop: every composite frame and every
\* mixed chunk successfully enqueued before stop() is taken from its queue and
\* encoded (or saved, without FFmpeg) before the encoder worker finalises the
\* output; when the worker exits, both of its input queues are empty
C36_NothingLostAtStop ==
    [][(encoder_input.pc = "flush" /\ EncoderFinished') =>
          /\ TakenVideo >= encoder_input.at_stop.video
          /\ TakenAudio >= encoder_input.at_stop.audio
          /\ encoder_input.queue = <<>>
          /\ encoder_input.audio_queue = <<>>]_vars

\* the first half alone: what was enqueued before stop() has been taken
C36_TakenBeforeExit ==
    [][(encoder_input.pc = "flush" /\ EncoderFinished') =>
          /\ TakenVideo >= encoder_input.at_stop.video
          /\ TakenAudio >= encoder_input.at_stop.audio]_vars

\* ------------------------------------------------------------ component claims
\* the workers of the instance that have not ended
Alive == {w \in DOMAIN instance.workers : instance.workers[w] = "alive"}

\* C34: for any sequence of start() and stop() calls on one capture source,
\* mixer or encoder instance, at most one worker of the instance is alive at
\* any time: start() while running returns an `already running` error and
\* spawns nothing, stop() called twice has the same effect as once, and a
\* start() issued after stop() never leaves two workers running side by side
C34_OneWorker ==
    /\ [](Cardinality(Alive) <= 1)
    /\ [][(InstanceStart /\ instance.running) =>
             instance' = [instance EXCEPT !.res = "AlreadyRunning"]]_vars
    /\ [][(InstanceStop /\ ~instance.running) =>
             instance' = [instance EXCEPT !.res = "Stopped"]]_vars

\* holds: the calls themselves do what the claim says of them
C34_Calls ==
    /\ [][(InstanceStart /\ instance.running) =>
             instance' = [instance EXCEPT !.res = "AlreadyRunning"]]_vars
    /\ [][(InstanceStop /\ ~instance.running) =>
             instance' = [instance EXCEPT !.res = "Stopped"]]_vars

\* ------------------------------------------------------------ restarted session
\* C35: the compositor worker of a stopped session ends even when start() is
\* called again right after stop() returns: once a later start() has been
\* made it runs no further iteration of its loop, so only the compositor of
\* the current session takes frames and writes status.frame_count
C35_OldCompositorEnds ==
    /\ [][\A n \in Ids : \A recent \in BOOLEAN :
            CompositorTick(n, recent) => n = attempts]_vars
    /\ [][(SameSession /\ status'.frame_count # status.frame_count)
            => \/ \E recent \in BOOLEAN : CompositorTick(attempts, recent)
               \/ CompositorExit(attempts)]_vars

\* ------------------------------------------------------------ started sources
\* whether cfg enables the capture source of kind k
SourceEnabled(cfg, k) == CASE k = "screen" -> cfg.capture_screen
                     [] k = "webcam" -> cfg.capture_webcam
                     [] k = "mic" -> cfg.capture_mic

\* the components of kind k whose start() has just set the running flag
StartedNow(k) == {i \in Ids : running'[k][i] /\ ~running[k][i]}

\* C37: the capture sources a successful start(config) starts are exactly
\* those enabled in config (screen, webcam, microphone), and only a source
\* that config enables is connected to the compositor or the mixer of the new
\* session, whatever an earlier failed start() attempt has left behind
C37_StartedAreEnabled ==
    [][\A cfg \in Configs : \A env \in Envs(cfg) :
         (Start(cfg, env) /\ ret'.res = "Ok") =>
             /\ \A k \in {"screen", "webcam", "mic"} :
                    StartedNow(k) # {} <=> SourceEnabled(cfg, k)
             /\ wire'["cs"][attempts'] # 0 => cfg.capture_screen
             /\ wire'["cw"][attempts'] # 0 => cfg.capture_webcam
             /\ wire'["mm"][attempts'] # 0 => cfg.capture_mic]_vars

\* ------------------------------------------------------------ frame accounting
\* C38: in screen mode every frame taken from the screen queue is accounted
\* for exactly once: over each compositor tick frame_count + skipped_frames
\* (both 0 when the worker starts) grows by the number of frames the tick has
\* taken, a frame being counted as emitted when try_send succeeded and as
\* skipped otherwise
C38_TakenAccounted ==
    [][\A recent \in BOOLEAN :
          ScreenTick(recent) =>
             /\ ScreenQueue' = <<>>
             /\ (cfc'[1] + skipped_frames'[1]) - (cfc[1] + skipped_frames[1])
                    = Len(ScreenQueue)
             /\ cfc'[1] - cfc[1] = Len(CompositeQueue') - Len(CompositeQueue)]_vars

\* every frame of the burst has been taken: one has been emitted, and more
\* frames have been skipped than the drains alone can have replaced, so a kept
\* frame has been dropped by the backpressure rule or refused by the queue
C38_Witness ==
    /\ cmode[1] = "screen"
    /\ ScreenQueue = <<>>
    /\ frames = 0
    /\ cfc[1] = CompositeCapacity
    /\ skipped_frames[1] >= Capacity("screen")

\* ------------------------------------------------------------ PiP of a session
\* C40: for every output resolution, every PiP corner and every webcam_size
\* start(config) accepts, no u32 subtraction of calculate_pip_position
\* underflows and the PiP rectangle VideoCompositor::new computes lies inside
\* the output frame
C40_PipInsideOutput ==
    (pure.fn = "start_new" /\ pure.done) =>
        /\ pure.out.pip_x # Overflow
        /\ pure.out.pip_y # Overflow
        /\ pure.out.pip_x + pure.out.pip_width <= pure.in.output_resolution[1]
        /\ pure.out.pip_y + pure.out.pip_height <= pure.in.output_resolution[2]

\* holds: with a webcam_size in the documented range the rectangle is inside
C40_DocumentedSizes ==
    (pure.fn = "start_new" /\ pure.done /\ pure.in.webcam_size \in 10..50) =>
        /\ pure.out.pip_x # Overflow
        /\ pure.out.pip_y # Overflow
        /\ pure.out.pip_x + pure.out.pip_width <= pure.in.output_resolution[1]
        /\ pure.out.pip_y + pure.out.pip_height <= pure.in.output_resolution[2]

\* ------------------------------------------------------------ cached status
\* no command is being served and the manager is between calls
CommandsIdle == recording_state.pc = "idle" /\ mpc = "idle"

C39_StartStopAgree ==
    [][(StartRecordingDone \/ StartRecordingResult \/ StopRecordingDone)
          => (recording_state'.pc = "idle" =>
                 recording_state'.status.is_recording = status'.is_recording)]_vars

====
